---------------------------- MODULE Spec2Model ----------------------------
(***************************************************************************)
(* Model of the override reconciliation data model of                      *)
(* react-native-platform-override (src/Override.ts): the five Override     *)
(* variants, their constructors, serialize / deserializeOverride,          *)
(* includesFile, upgradeStrategy, validationStrategies and createUpdated.  *)
(*                                                                         *)
(* A path string is a sequence of one-character strings, so that           *)
(* separators, "." and ".." segments and normalisation are computed and    *)
(* not assumed.                                                            *)
(***************************************************************************)
EXTENDS Integers, Sequences, FiniteSets, TLC

VARIABLES
    platform,    \* "posix" or "win32": which flavour of Node's path module is in use
    cwd,         \* process.cwd() as a sequence of segments below the root
    ovr,         \* the override instance the client holds (the receiver of calls)
    pending,     \* the factory call a createUpdated is awaiting, or NoCall
    last,        \* what the last completed call was and what it returned
    reactRepo,   \* upstream tree: content per path (NoContent = missing)
    overrideRepo, \* downstream tree: content per path (NoContent = missing)
    manifest,    \* the overrides a manifest holds, by entry
    tasks,       \* per manifest entry: the validation and the upgrade in flight
    holder,      \* a lazily initialised runtime holder and the threads calling getRuntime
    transport,   \* the QuickJS debugger transport: one connect or wait_connection call
    cli          \* one run of the react-native-windows-init command line

vars == <<platform, cwd, ovr, pending, last, reactRepo, overrideRepo, manifest, tasks,
         holder, transport, cli>>

(***************************************************************************)
(* Bounds of the model.                                                    *)
(***************************************************************************)
\* Longest path, in segments, handed to a constructor or found in a record.
MaxSegs == 2
\* Longest path, in segments, handed to includesFile.
MaxQuerySegs == 4
\* Most lines of a file that is merged.
MaxLines == 2
\* The threads that call getRuntime on one runtime holder.
NumThreads == 3
\* The getRuntime calls one thread makes.
MaxCalls == 2
\* The longest host part and port part of a debugger address.
MaxHostLen == 17
MaxPortLen == 17
\* The most addresses getaddrinfo resolves a host to.
MaxAddrs == 2

(***************************************************************************)
(* Strings as character sequences.                                         *)
(***************************************************************************)
SLASH == "/"
BACKSLASH == "\\"
DOT == <<".">>
DOTDOT == <<".", ".">>
EMPTY == <<>>

Platforms == {"posix", "win32"}

\* path.sep
PathSep(plat) == IF plat = "win32" THEN BACKSLASH ELSE SLASH

\* The characters path.normalize / path.relative treat as separators.
IsPathSeparator(plat, c) == c = SLASH \/ (plat = "win32" /\ c = BACKSLASH)

Last(s) == s[Len(s)]
Front(s) == SubSeq(s, 1, Len(s) - 1)

RECURSIVE SplitAcc(_, _, _, _)
SplitAcc(s, seps, cur, acc) ==
    IF s = <<>> THEN Append(acc, cur)
    ELSE IF Head(s) \in seps THEN SplitAcc(Tail(s), seps, <<>>, Append(acc, cur))
    ELSE SplitAcc(Tail(s), seps, Append(cur, Head(s)), acc)

\* String.prototype.split on a one-character separator: "" gives [""].
SplitOn(s, sepChar) == SplitAcc(s, {sepChar}, <<>>, <<>>)

\* The segments path.normalize / path.resolve see: split on every separator of the platform.
Segments(plat, s) ==
    SplitAcc(s, IF plat = "win32" THEN {SLASH, BACKSLASH} ELSE {SLASH}, <<>>, <<>>)

RECURSIVE Join(_, _)
Join(segs, sepChar) ==
    IF segs = <<>> THEN <<>>
    ELSE IF Len(segs) = 1 THEN segs[1]
    ELSE segs[1] \o <<sepChar>> \o Join(Tail(segs), sepChar)

\* Node's normalizeString: drop "" and ".", resolve "..", keep leading ".." when allowed.
RECURSIVE normalizeString(_, _, _)
normalizeString(segs, allowAboveRoot, res) ==
    IF segs = <<>> THEN res
    ELSE LET s == Head(segs)
             rest == Tail(segs)
         IN IF s = EMPTY \/ s = DOT THEN normalizeString(rest, allowAboveRoot, res)
            ELSE IF s = DOTDOT
                 THEN IF res # <<>> /\ Last(res) # DOTDOT
                      THEN normalizeString(rest, allowAboveRoot, Front(res))
                      ELSE IF allowAboveRoot
                           THEN normalizeString(rest, allowAboveRoot, Append(res, DOTDOT))
                           ELSE normalizeString(rest, allowAboveRoot, res)
                 ELSE normalizeString(rest, allowAboveRoot, Append(res, s))

\* path.normalize of the platform, for paths without a drive or UNC prefix.
pathNormalize(plat, p) ==
    IF p = <<>> THEN DOT
    ELSE LET isAbsolute == IsPathSeparator(plat, p[1])
             trailingSeparator == IsPathSeparator(plat, Last(p))
             tail == Join(normalizeString(Segments(plat, p), ~isAbsolute, <<>>), PathSep(plat))
             body == IF tail = <<>> /\ ~isAbsolute THEN DOT ELSE tail
             withTrail == IF body # <<>> /\ trailingSeparator
                          THEN Append(body, PathSep(plat)) ELSE body
         IN IF isAbsolute THEN <<PathSep(plat)>> \o withTrail ELSE withTrail

\* path.resolve(p) as the segments below the root: relative paths resolve against cwd.
pathResolve(plat, wd, p) ==
    IF p # <<>> /\ IsPathSeparator(plat, p[1])
    THEN normalizeString(Segments(plat, p), FALSE, <<>>)
    ELSE normalizeString(wd \o Segments(plat, p), FALSE, <<>>)

RECURSIVE CommonPrefixLen(_, _)
CommonPrefixLen(a, b) ==
    IF a = <<>> \/ b = <<>> \/ Head(a) # Head(b) THEN 0
    ELSE 1 + CommonPrefixLen(Tail(a), Tail(b))

\* path.relative(from, to): ".." for every segment of from past the common
\* prefix, then what is left of to; "" when both resolve to the same place.
pathRelative(plat, wd, from, to) ==
    LET f == pathResolve(plat, wd, from)
        t == pathResolve(plat, wd, to)
        n == CommonPrefixLen(f, t)
        ups == [i \in 1..(Len(f) - n) |-> DOTDOT]
    IN Join(ups \o SubSeq(t, n + 1, Len(t)), PathSep(plat))

(***************************************************************************)
(* PathUtils.                                                              *)
(***************************************************************************)
\* Convert a path to use Unix-style slashes.
unixPath(p) == [i \in DOMAIN p |-> IF p[i] = BACKSLASH THEN SLASH ELSE p[i]]

\* Normalize a path and convert to use platform-specific slashes.
normalizePath(p) == pathNormalize(platform, unixPath(p))

(***************************************************************************)
(* JavaScript values of the issue field.                                   *)
(***************************************************************************)
JsNumber(n) == [t |-> "number", n |-> n]
JsNull == [t |-> "null", n |-> 0]
JsUndefined == [t |-> "undefined", n |-> 0]
\* The string 'LEGACY_FIXME', the only string an issue may be.
LEGACY_FIXME == [t |-> "string", n |-> 0]

\* JavaScript truthiness of an issue value: null, undefined and 0 are falsy.
Truthy(v) == ~(v.t \in {"null", "undefined"} \/ (v.t = "number" /\ v.n = 0))

\* a || b
JsOr(a, b) == IF Truthy(a) THEN a ELSE b

\* args.k: undefined when the object has no such key.
Get(args, k) == IF k \in DOMAIN args THEN args[k] ELSE JsUndefined

(***************************************************************************)
(* Constructors. An instance is a record of its private fields plus the    *)
(* class it was built by.                                                  *)
(***************************************************************************)
\* What a constructor ends in when normalizePath is handed undefined, the
\* value of a field the arguments do not have: the TypeError of a string
\* operation on undefined.
TypeError == [thrown |-> "TypeError"]

IsThrown(v) == "thrown" \in DOMAIN v

PlatformOverride(args) ==
    IF "file" \notin DOMAIN args THEN TypeError
    ELSE [class |-> "PlatformOverride", overrideFile |-> normalizePath(args.file)]

\* baseVersion and baseHash are plain assignments: a field the arguments do
\* not have is stored as undefined.
BaseFileOverride(cls, args) ==
    IF ~({"file", "baseFile"} \subseteq DOMAIN args) THEN TypeError
    ELSE [class |-> cls,
          overrideFile |-> normalizePath(args.file),
          baseFile |-> normalizePath(args.baseFile),
          baseVersion |-> Get(args, "baseVersion"),
          baseHash |-> Get(args, "baseHash"),
          issueNumber |-> JsOr(Get(args, "issue"), JsNull)]

CopyOverride(args) == BaseFileOverride("CopyOverride", args)

DerivedOverride(args) == BaseFileOverride("DerivedOverride", args)

PatchOverride(args) == BaseFileOverride("PatchOverride", args)

DirectoryCopyOverride(args) ==
    IF ~({"directory", "baseDirectory"} \subseteq DOMAIN args) THEN TypeError
    ELSE [class |-> "DirectoryCopyOverride",
          directory |-> normalizePath(args.directory),
          baseDirectory |-> normalizePath(args.baseDirectory),
          baseVersion |-> Get(args, "baseVersion"),
          baseHash |-> Get(args, "baseHash"),
          issue |-> Get(args, "issue")]

FileClasses == {"CopyOverride", "DerivedOverride", "PatchOverride"}
Classes == {"PlatformOverride", "DirectoryCopyOverride"} \cup FileClasses

IsOverride(o) == "class" \in DOMAIN o

(***************************************************************************)
(* serialize                                                               *)
(***************************************************************************)
PlatformOverride_serialize(o) == [type |-> "platform", file |-> unixPath(o.overrideFile)]

CopyOverride_serialize(o) ==
    [type |-> "copy",
     file |-> unixPath(o.overrideFile),
     baseFile |-> unixPath(o.baseFile),
     baseVersion |-> o.baseVersion,
     baseHash |-> o.baseHash,
     issue |-> o.issueNumber]

DerivedOverride_serialize(o) ==
    [type |-> "derived",
     file |-> unixPath(o.overrideFile),
     baseFile |-> unixPath(o.baseFile),
     baseVersion |-> o.baseVersion,
     baseHash |-> o.baseHash,
     issue |-> JsOr(o.issueNumber, JsUndefined)]

\* A copy-and-paste slip: the patch variant written out under the derived tag.
PatchOverride_serialize_derivedTag(o) ==
    [type |-> "derived",
     file |-> unixPath(o.overrideFile),
     baseFile |-> unixPath(o.baseFile),
     baseVersion |-> o.baseVersion,
     baseHash |-> o.baseHash,
     issue |-> o.issueNumber]

PatchOverride_serialize(o) ==
    [type |-> "patch",
     file |-> unixPath(o.overrideFile),
     baseFile |-> unixPath(o.baseFile),
     baseVersion |-> o.baseVersion,
     baseHash |-> o.baseHash,
     issue |-> o.issueNumber]

\* A slip: the directory paths written out as held, without unixPath.
DirectoryCopyOverride_serialize_raw(o) ==
    [type |-> "copy",
     directory |-> o.directory,
     baseDirectory |-> o.baseDirectory,
     baseVersion |-> o.baseVersion,
     baseHash |-> o.baseHash,
     issue |-> o.issue]

DirectoryCopyOverride_serialize(o) ==
    [type |-> "copy",
     directory |-> unixPath(o.directory),
     baseDirectory |-> unixPath(o.baseDirectory),
     baseVersion |-> o.baseVersion,
     baseHash |-> o.baseHash,
     issue |-> o.issue]

serialize(o) ==
    CASE o.class = "PlatformOverride" -> PlatformOverride_serialize(o)
      [] o.class = "CopyOverride" -> CopyOverride_serialize(o)
      [] o.class = "DerivedOverride" -> DerivedOverride_serialize(o)
      [] o.class = "PatchOverride" -> PatchOverride_serialize(o)
      [] o.class = "DirectoryCopyOverride" -> DirectoryCopyOverride_serialize(o)

(***************************************************************************)
(* deserializeOverride: the switch on ovr.type; a type no case names       *)
(* falls off the end of the function, which returns undefined.             *)
(***************************************************************************)
\* A slip in the shared-tag test: a copy record is a directory copy only when it has no file field.
deserializeOverride_fileTest(ser) ==
    CASE ser.type = "platform" -> PlatformOverride(ser)
      [] ser.type = "copy" ->
            IF "file" \in DOMAIN ser
            THEN CopyOverride(ser)
            ELSE DirectoryCopyOverride(ser)
      [] ser.type = "derived" -> DerivedOverride(ser)
      [] ser.type = "patch" -> PatchOverride(ser)
      [] OTHER -> JsUndefined

deserializeOverride(ser) ==
    CASE ser.type = "platform" -> PlatformOverride(ser)
      [] ser.type = "copy" ->
            IF "directory" \in DOMAIN ser
            THEN DirectoryCopyOverride(ser)
            ELSE CopyOverride(ser)
      [] ser.type = "derived" -> DerivedOverride(ser)
      [] ser.type = "patch" -> PatchOverride(ser)
      [] OTHER -> JsUndefined

(***************************************************************************)
(* name, includesFile                                                      *)
(***************************************************************************)
\* A slip: the upstream path given as the name of an override that has one.
name_basePath(o) ==
    CASE o.class = "PlatformOverride" -> o.overrideFile
      [] o.class = "DirectoryCopyOverride" -> o.baseDirectory
      [] OTHER -> o.baseFile

name(o) == IF o.class = "DirectoryCopyOverride" THEN o.directory ELSE o.overrideFile

PlatformOverride_includesFile(o, filename) == normalizePath(filename) = o.overrideFile

\* A slip: the query compared with the base file.
BaseFileOverride_includesFile_base(o, filename) == normalizePath(filename) = o.baseFile

BaseFileOverride_includesFile(o, filename) == normalizePath(filename) = o.overrideFile

\* A slip: the query handed to path.relative as it came, not normalized.
DirectoryCopyOverride_includesFile_raw(o, filename) ==
    LET relativeToDir == pathRelative(platform, cwd, o.directory, filename)
    IN SplitOn(relativeToDir, PathSep(platform))[1] # DOTDOT

DirectoryCopyOverride_includesFile(o, filename) ==
    LET relativeToDir == pathRelative(platform, cwd, o.directory, normalizePath(filename))
    IN SplitOn(relativeToDir, PathSep(platform))[1] # DOTDOT

includesFile(o, filename) ==
    CASE o.class = "PlatformOverride" -> PlatformOverride_includesFile(o, filename)
      [] o.class \in FileClasses -> BaseFileOverride_includesFile(o, filename)
      [] o.class = "DirectoryCopyOverride" -> DirectoryCopyOverride_includesFile(o, filename)

(***************************************************************************)
(* upgradeStrategy: the descriptor UpgradeStrategies.<strategy>(...) is    *)
(* asked for, as its name and arguments.                                   *)
(***************************************************************************)
PlatformOverride_upgradeStrategy(o) ==
    [strategy |-> "assumeUpToDate", params |-> <<o.overrideFile>>]

CopyOverride_upgradeStrategy(o) ==
    [strategy |-> "copyFile", params |-> <<o.overrideFile, o.baseFile>>]

DerivedOverride_upgradeStrategy(o) ==
    [strategy |-> "threeWayMerge", params |-> <<o.overrideFile, o.baseFile, o.baseVersion>>]

\* A slip: the patch variant re-copied instead of merged.
PatchOverride_upgradeStrategy_copy(o) ==
    [strategy |-> "copyFile", params |-> <<o.overrideFile, o.baseFile>>]

PatchOverride_upgradeStrategy(o) ==
    [strategy |-> "threeWayMerge", params |-> <<o.overrideFile, o.baseFile, o.baseVersion>>]

DirectoryCopyOverride_upgradeStrategy(o) ==
    [strategy |-> "copyDirectory", params |-> <<o.directory, o.baseDirectory>>]

upgradeStrategy(o) ==
    CASE o.class = "PlatformOverride" -> PlatformOverride_upgradeStrategy(o)
      [] o.class = "CopyOverride" -> CopyOverride_upgradeStrategy(o)
      [] o.class = "DerivedOverride" -> DerivedOverride_upgradeStrategy(o)
      [] o.class = "PatchOverride" -> PatchOverride_upgradeStrategy(o)
      [] o.class = "DirectoryCopyOverride" -> DirectoryCopyOverride_upgradeStrategy(o)

(***************************************************************************)
(* validationStrategies: the ordered list of ValidationStrategies.<check>  *)
(* descriptors, each as its name and arguments.                            *)
(***************************************************************************)
\* A slip: a platform override left without any check.
PlatformOverride_validationStrategies_none(o) == <<>>

\* A slip: a platform override given the base checks of a file-linked one,
\* with its own file standing in for the base it does not have.
PlatformOverride_validationStrategies_linked(o) ==
    << [check |-> "overrideFileExists", params |-> <<o.overrideFile>>],
       [check |-> "baseFileExists", params |-> <<o.overrideFile, o.overrideFile>>],
       [check |-> "baseUpToDate", params |-> <<o.overrideFile, o.overrideFile, "none">>] >>

PlatformOverride_validationStrategies(o) ==
    << [check |-> "overrideFileExists", params |-> <<o.overrideFile>>] >>

\* A slip: baseUpToDate handed the override file where the base file belongs.
BaseFileOverride_validationStrategies_swapped(o) ==
    << [check |-> "baseFileExists", params |-> <<o.overrideFile, o.baseFile>>],
       [check |-> "overrideFileExists", params |-> <<o.overrideFile>>],
       [check |-> "baseUpToDate", params |-> <<o.baseFile, o.overrideFile, o.baseHash>>] >>

BaseFileOverride_validationStrategies(o) ==
    << [check |-> "baseFileExists", params |-> <<o.overrideFile, o.baseFile>>],
       [check |-> "overrideFileExists", params |-> <<o.overrideFile>>],
       [check |-> "baseUpToDate", params |-> <<o.overrideFile, o.baseFile, o.baseHash>>] >>

CopyOverride_validationStrategies(o) ==
    BaseFileOverride_validationStrategies(o) \o
    << [check |-> "overrideCopyOfBase", params |-> <<o.overrideFile, o.baseFile>>] >>

\* A copy-and-paste slip: the derived variant checked for equality with its base.
DerivedOverride_validationStrategies_copyCheck(o) ==
    BaseFileOverride_validationStrategies(o) \o
    << [check |-> "overrideCopyOfBase", params |-> <<o.overrideFile, o.baseFile>>] >>

DerivedOverride_validationStrategies(o) ==
    BaseFileOverride_validationStrategies(o) \o
    << [check |-> "overrideDifferentFromBase", params |-> <<o.overrideFile, o.baseFile>>] >>

\* A slip: the patch variant returns the base list without its content check.
PatchOverride_validationStrategies_baseOnly(o) ==
    BaseFileOverride_validationStrategies(o)

PatchOverride_validationStrategies(o) ==
    BaseFileOverride_validationStrategies(o) \o
    << [check |-> "overrideDifferentFromBase", params |-> <<o.overrideFile, o.baseFile>>] >>

DirectoryCopyOverride_validationStrategies(o) ==
    << [check |-> "overrideDirectoryExists", params |-> <<o.directory>>],
       [check |-> "baseDirectoryExists", params |-> <<o.directory, o.baseDirectory>>],
       [check |-> "baseUpToDate", params |-> <<o.directory, o.baseDirectory, o.baseHash>>],
       [check |-> "overrideCopyOfBase", params |-> <<o.directory, o.baseDirectory>>] >>

validationStrategies(o) ==
    CASE o.class = "PlatformOverride" -> PlatformOverride_validationStrategies(o)
      [] o.class = "CopyOverride" -> CopyOverride_validationStrategies(o)
      [] o.class = "DerivedOverride" -> DerivedOverride_validationStrategies(o)
      [] o.class = "PatchOverride" -> PatchOverride_validationStrategies(o)
      [] o.class = "DirectoryCopyOverride" -> DirectoryCopyOverride_validationStrategies(o)

(***************************************************************************)
(* createUpdated: the one call each variant makes on the factory.          *)
(***************************************************************************)
PlatformOverride_createUpdated(o) ==
    [method |-> "createPlatformOverride", file |-> o.overrideFile]

\* A slip: the two path arguments of createCopyOverride in the wrong order.
CopyOverride_createUpdated_swapped(o) ==
    [method |-> "createCopyOverride",
     file |-> o.baseFile, baseFile |-> o.overrideFile, issue |-> o.issueNumber]

CopyOverride_createUpdated(o) ==
    [method |-> "createCopyOverride",
     file |-> o.overrideFile, baseFile |-> o.baseFile, issue |-> o.issueNumber]

DerivedOverride_createUpdated(o) ==
    [method |-> "createDerivedOverride",
     file |-> o.overrideFile, baseFile |-> o.baseFile,
     issue |-> JsOr(o.issueNumber, JsUndefined)]

\* A copy-and-paste slip: the patch variant asks the factory for a derived override.
PatchOverride_createUpdated_derived(o) ==
    [method |-> "createDerivedOverride",
     file |-> o.overrideFile, baseFile |-> o.baseFile, issue |-> o.issueNumber]

PatchOverride_createUpdated(o) ==
    [method |-> "createPatchOverride",
     file |-> o.overrideFile, baseFile |-> o.baseFile, issue |-> o.issueNumber]

DirectoryCopyOverride_createUpdated(o) ==
    [method |-> "createDirectoryCopyOverride",
     directory |-> o.directory, baseDirectory |-> o.baseDirectory, issue |-> o.issue]

createUpdated(o) ==
    CASE o.class = "PlatformOverride" -> PlatformOverride_createUpdated(o)
      [] o.class = "CopyOverride" -> CopyOverride_createUpdated(o)
      [] o.class = "DerivedOverride" -> DerivedOverride_createUpdated(o)
      [] o.class = "PatchOverride" -> PatchOverride_createUpdated(o)
      [] o.class = "DirectoryCopyOverride" -> DirectoryCopyOverride_createUpdated(o)

(***************************************************************************)
(* OverrideFactory: each create method resolves against the current        *)
(* upstream snapshot and returns a freshly pinned Override, or fails when  *)
(* the upstream path cannot be resolved.                                   *)
(***************************************************************************)
OverrideFactory_create(call, snapshot) ==
    CASE call.method = "createPlatformOverride" -> PlatformOverride([file |-> call.file])
      [] call.method = "createCopyOverride" ->
            CopyOverride([file |-> call.file, baseFile |-> call.baseFile,
                          baseVersion |-> snapshot.baseVersion,
                          baseHash |-> snapshot.baseHash, issue |-> call.issue])
      [] call.method = "createDerivedOverride" ->
            DerivedOverride([file |-> call.file, baseFile |-> call.baseFile,
                             baseVersion |-> snapshot.baseVersion,
                             baseHash |-> snapshot.baseHash, issue |-> call.issue])
      [] call.method = "createPatchOverride" ->
            PatchOverride([file |-> call.file, baseFile |-> call.baseFile,
                           baseVersion |-> snapshot.baseVersion,
                           baseHash |-> snapshot.baseHash, issue |-> call.issue])
      [] call.method = "createDirectoryCopyOverride" ->
            DirectoryCopyOverride([directory |-> call.directory,
                                   baseDirectory |-> call.baseDirectory,
                                   baseVersion |-> snapshot.baseVersion,
                                   baseHash |-> snapshot.baseHash, issue |-> call.issue])

UpstreamResolutionError == "UpstreamResolutionError"

\* A slip: the factory's failure is caught and the receiver handed back.
createUpdated_promise_swallow(factoryPromise) ==
    IF factoryPromise.state = "fulfilled"
    THEN [state |-> "fulfilled", value |-> factoryPromise.value]
    ELSE [state |-> "fulfilled", value |-> ovr]

\* The promise an async createUpdated returns: `return factory.create...(...)`
\* settles it the way the factory's promise settled.
createUpdated_promise(factoryPromise) ==
    IF factoryPromise.state = "fulfilled"
    THEN [state |-> "fulfilled", value |-> factoryPromise.value]
    ELSE [state |-> "rejected", reason |-> factoryPromise.reason]

(***************************************************************************)
(* Inputs.                                                                 *)
(***************************************************************************)
SegmentNames == {<<"a">>, <<"b">>, DOT, DOTDOT}

\* Lists of exactly n segments whose first is a name; the later ones may be
\* empty ("a//b", "a/").
RECURSIVE SegmentLists(_)
SegmentLists(n) ==
    IF n = 1 THEN {<<seg>> : seg \in SegmentNames}
    ELSE {Append(l, seg) : l \in SegmentLists(n - 1), seg \in SegmentNames \cup {EMPTY}}

\* Relative paths of up to n segments, written with either separator.
PathsUpTo(n) ==
    {Join(l, c) : l \in UNION {SegmentLists(k) : k \in 1..n}, c \in {SLASH, BACKSLASH}}

CtorPaths == PathsUpTo(MaxSegs)
QueryPaths == PathsUpTo(MaxQuerySegs)

\* Spellings of the upstream path.
BasePaths == {<<"u", "/", "v">>, <<"u", "\\", "v">>}

IssueValues == {JsNumber(0), JsNumber(7), LEGACY_FIXME}

\* The upstream snapshots: what an override is pinned to, what the factory finds.
Snapshots == {[baseVersion |-> "0.61.5", baseHash |-> "h1"],
              [baseVersion |-> "0.62.2", baseHash |-> "h2"]}

WithIssue(S) == S \cup {a @@ [issue |-> i] : a \in S, i \in IssueValues}

PlatformArgs == [file : CtorPaths]
BaseFileArgs ==
    WithIssue({[file |-> f, baseFile |-> b] @@ pin : f \in CtorPaths, b \in BasePaths, pin \in Snapshots})
DirectoryCopyArgs ==
    {[directory |-> d, baseDirectory |-> b, issue |-> i] @@ pin :
        d \in CtorPaths, b \in BasePaths, pin \in Snapshots, i \in {JsNumber(0), JsNumber(7)}}

\* Records as a manifest holds them: the shape each variant serializes to, plus
\* records that carry the fields of both shapes under every type tag, and
\* under a tag no variant has.
WellShapedRecords ==
    {[type |-> "platform"] @@ a : a \in PlatformArgs}
    \cup {[type |-> t] @@ a : t \in {"copy", "derived", "patch"}, a \in BaseFileArgs}
    \cup {[type |-> "copy"] @@ a : a \in DirectoryCopyArgs}

BothShapeRecords ==
    {[type |-> t, file |-> f, baseFile |-> b, directory |-> f, baseDirectory |-> b,
      baseVersion |-> "0.61.5", baseHash |-> "h1", issue |-> JsNumber(7)] :
        t \in {"platform", "copy", "derived", "patch", "unknown"},
        f \in PathsUpTo(1), b \in BasePaths}

Records == WellShapedRecords \cup BothShapeRecords

NoOverride == [none |-> TRUE]
NoCall == [state |-> "none"]
NoTree == <<>>

(***************************************************************************)
(* The client of one override: construction, then calls on the instance.   *)
(***************************************************************************)
Init ==
    /\ holder = <<>>
    /\ transport = <<>>
    /\ cli = <<>>
    /\ platform \in Platforms
    /\ manifest = <<>>
    /\ tasks = <<>>
    /\ cwd = <<>>
    /\ ovr = NoOverride
    /\ pending = NoCall
    /\ last = [op |-> "none"]
    /\ reactRepo = NoTree
    /\ overrideRepo = NoTree

New(cls, args) ==
    CASE cls = "PlatformOverride" -> PlatformOverride(args)
      [] cls = "CopyOverride" -> CopyOverride(args)
      [] cls = "DerivedOverride" -> DerivedOverride(args)
      [] cls = "PatchOverride" -> PatchOverride(args)
      [] cls = "DirectoryCopyOverride" -> DirectoryCopyOverride(args)

ArgsOf(cls) ==
    CASE cls = "PlatformOverride" -> PlatformArgs
      [] cls \in FileClasses -> BaseFileArgs
      [] cls = "DirectoryCopyOverride" -> DirectoryCopyArgs

\* new <Class>(args)
Construct(cls, args) ==
    /\ last.op = "none"
    /\ ovr' = New(cls, args)
    /\ last' = [op |-> "new", class |-> cls]
    /\ UNCHANGED <<holder, transport, cli, manifest, tasks, platform, cwd, pending, reactRepo, overrideRepo>>

\* deserializeOverride(rec) on a record of the manifest; what it returns, when
\* it is an override, becomes the instance the client holds.
LoadRecord(rec) ==
    /\ last.op = "none"
    /\ LET ret == deserializeOverride(rec)
       IN /\ ovr' = IF IsOverride(ret) THEN ret ELSE ovr
          /\ last' = [op |-> "deserializeOverride", arg |-> rec, ret |-> ret]
    /\ UNCHANGED <<holder, transport, cli, manifest, tasks, platform, cwd, pending, reactRepo, overrideRepo>>

CallName ==
    /\ IsOverride(ovr)
    /\ pending = NoCall
    /\ last' = [op |-> "name", ret |-> name(ovr)]
    /\ UNCHANGED <<holder, transport, cli, manifest, tasks, platform, cwd, ovr, pending, reactRepo, overrideRepo>>

CallIncludesFile(filename) ==
    /\ IsOverride(ovr)
    /\ pending = NoCall
    /\ last' = [op |-> "includesFile", arg |-> filename, ret |-> includesFile(ovr, filename)]
    /\ UNCHANGED <<holder, transport, cli, manifest, tasks, platform, cwd, ovr, pending, reactRepo, overrideRepo>>

CallSerialize ==
    /\ IsOverride(ovr)
    /\ pending = NoCall
    /\ last' = [op |-> "serialize", ret |-> serialize(ovr)]
    /\ UNCHANGED <<holder, transport, cli, manifest, tasks, platform, cwd, ovr, pending, reactRepo, overrideRepo>>

\* deserializeOverride(o.serialize()): the record serialize returned is rehydrated.
Rehydrate ==
    /\ IsOverride(ovr)
    /\ pending = NoCall
    /\ last.op = "serialize"
    /\ last' = [op |-> "rehydrate", arg |-> last.ret, ret |-> deserializeOverride(last.ret)]
    /\ UNCHANGED <<holder, transport, cli, manifest, tasks, platform, cwd, ovr, pending, reactRepo, overrideRepo>>

CallUpgradeStrategy ==
    /\ IsOverride(ovr)
    /\ pending = NoCall
    /\ last' = [op |-> "upgradeStrategy", ret |-> upgradeStrategy(ovr)]
    /\ UNCHANGED <<holder, transport, cli, manifest, tasks, platform, cwd, ovr, pending, reactRepo, overrideRepo>>

CallValidationStrategies ==
    /\ IsOverride(ovr)
    /\ pending = NoCall
    /\ last' = [op |-> "validationStrategies", ret |-> validationStrategies(ovr)]
    /\ UNCHANGED <<holder, transport, cli, manifest, tasks, platform, cwd, ovr, pending, reactRepo, overrideRepo>>

\* createUpdated(factory) up to its call on the factory, whose promise is awaited.
CallCreateUpdated ==
    /\ IsOverride(ovr)
    /\ pending = NoCall
    /\ pending' = [state |-> "awaiting", call |-> createUpdated(ovr)]
    /\ last' = [op |-> "createUpdated", promise |-> [state |-> "pending"]]
    /\ UNCHANGED <<holder, transport, cli, manifest, tasks, platform, cwd, ovr, reactRepo, overrideRepo>>

\* The factory resolves the upstream path and fulfils with a freshly pinned override.
FactoryFulfils(snapshot) ==
    /\ pending.state = "awaiting"
    /\ pending' = [state |-> "fulfilled", call |-> pending.call,
                   value |-> OverrideFactory_create(pending.call, snapshot)]
    /\ UNCHANGED <<holder, transport, cli, manifest, tasks, platform, cwd, ovr, last, reactRepo, overrideRepo>>

\* The factory cannot resolve the upstream file or directory.
FactoryRejects ==
    /\ pending.state = "awaiting"
    /\ pending.call.method # "createPlatformOverride"
    /\ pending' = [state |-> "rejected", call |-> pending.call,
                   reason |-> UpstreamResolutionError]
    /\ UNCHANGED <<holder, transport, cli, manifest, tasks, platform, cwd, ovr, last, reactRepo, overrideRepo>>

\* A slip: the receiver re-pinned in place when the factory's promise settles.
CreateUpdatedSettles_inPlace ==
    /\ pending.state \in {"fulfilled", "rejected"}
    /\ last' = [op |-> "createUpdated", call |-> pending.call, factory |-> pending.state,
                promise |-> createUpdated_promise(pending)]
    /\ pending' = NoCall
    /\ ovr' = IF pending.state = "fulfilled" THEN pending.value ELSE ovr
    /\ UNCHANGED <<holder, transport, cli, manifest, tasks, platform, cwd, reactRepo, overrideRepo>>

\* The promise createUpdated returned settles.
CreateUpdatedSettles ==
    /\ pending.state \in {"fulfilled", "rejected"}
    /\ last' = [op |-> "createUpdated", call |-> pending.call, factory |-> pending.state,
                promise |-> createUpdated_promise(pending)]
    /\ pending' = NoCall
    /\ UNCHANGED <<holder, transport, cli, manifest, tasks, platform, cwd, ovr, reactRepo, overrideRepo>>

\* The caller replaces the entry it holds by the instance createUpdated gave.
ReplaceEntry ==
    /\ last.op = "createUpdated"
    /\ last.promise.state = "fulfilled"
    /\ ovr' = last.promise.value
    /\ last' = [op |-> "replace"]
    /\ UNCHANGED <<holder, transport, cli, manifest, tasks, platform, cwd, pending, reactRepo, overrideRepo>>

Next ==
    \/ (last.op = "none" /\ \E cls \in Classes : \E args \in ArgsOf(cls) : Construct(cls, args))
    \/ (last.op = "none" /\ \E rec \in Records : LoadRecord(rec))
    \/ CallName
    \/ (IsOverride(ovr) /\ \E filename \in SegmentNames : CallIncludesFile(filename))
    \/ CallSerialize
    \/ Rehydrate
    \/ CallUpgradeStrategy
    \/ CallValidationStrategies
    \/ CallCreateUpdated
    \/ \E snapshot \in Snapshots : FactoryFulfils(snapshot)
    \/ FactoryRejects
    \/ CreateUpdatedSettles
    \/ ReplaceEntry

Spec == Init /\ [][Next]_vars

(***************************************************************************)
(* Properties of the client of one override (Spec).                        *)
(***************************************************************************)

\* C1: deserializeOverride(o.serialize()) is an override of the same variant,
\* with the same name, the same validation checks and parameters, the same
\* upgrade strategy and parameters, and it serializes to the record o
\* serialized to.
C1_RoundTrip ==
    last.op = "rehydrate" =>
        /\ IsOverride(last.ret)
        /\ last.ret.class = ovr.class
        /\ name(last.ret) = name(ovr)
        /\ validationStrategies(last.ret) = validationStrategies(ovr)
        /\ upgradeStrategy(last.ret) = upgradeStrategy(ovr)
        /\ serialize(last.ret) = last.arg

\* A patch override with a falsy-normalised issue and a two-segment name has
\* been serialized and rehydrated on the platform whose separator is not "/".
C1_Witness ==
    /\ last.op = "rehydrate"
    /\ platform = "win32"
    /\ ovr.class = "PatchOverride"
    /\ ovr.issueNumber = JsNull
    /\ ovr.overrideFile = <<"a", BACKSLASH, "b">>

ExpectedClass(rec) ==
    CASE rec.type = "platform" -> "PlatformOverride"
      [] rec.type = "derived" -> "DerivedOverride"
      [] rec.type = "patch" -> "PatchOverride"
      [] rec.type = "copy" /\ "directory" \in DOMAIN rec -> "DirectoryCopyOverride"
      [] rec.type = "copy" /\ "directory" \notin DOMAIN rec -> "CopyOverride"
      [] OTHER -> "none"

\* C2: the variant deserializeOverride builds is the one the record's type
\* names, a copy record giving a directory copy exactly when it has a
\* directory field; a record of no known type gives no override.
C2_Dispatch ==
    last.op \in {"deserializeOverride", "rehydrate"} =>
        IF ExpectedClass(last.arg) = "none"
        THEN ~IsOverride(last.ret)
        ELSE IsOverride(last.ret) /\ last.ret.class = ExpectedClass(last.arg)

\* A copy record that has both a file and a directory field was loaded as a directory copy.
C2_Witness ==
    /\ last.op = "deserializeOverride"
    /\ last.arg.type = "copy"
    /\ {"file", "directory"} \subseteq DOMAIN last.arg
    /\ IsOverride(last.ret)
    /\ last.ret.class = "DirectoryCopyOverride"

\* C5: the checks of a copy, derived or patch override are baseFileExists,
\* overrideFileExists, baseUpToDate(overrideFile, baseFile, baseHash), in
\* that order, then one content check: overrideCopyOfBase for a copy,
\* overrideDifferentFromBase for a derived or patch override.
C5_FileValidationList ==
    (last.op = "validationStrategies" /\ ovr.class \in FileClasses) =>
        /\ Len(last.ret) = 4
        /\ last.ret[1] = [check |-> "baseFileExists", params |-> <<ovr.overrideFile, ovr.baseFile>>]
        /\ last.ret[2] = [check |-> "overrideFileExists", params |-> <<ovr.overrideFile>>]
        /\ last.ret[3] = [check |-> "baseUpToDate",
                          params |-> <<ovr.overrideFile, ovr.baseFile, ovr.baseHash>>]
        /\ last.ret[4].check = IF ovr.class = "CopyOverride"
                               THEN "overrideCopyOfBase" ELSE "overrideDifferentFromBase"
        /\ last.ret[4].params = <<ovr.overrideFile, ovr.baseFile>>

\* The checks of a derived override have been asked for.
C5_Witness ==
    /\ last.op = "validationStrategies"
    /\ ovr.class = "DerivedOverride"
    /\ ovr.baseHash = "h2"

\* C6: the upgrade strategy follows from the variant: assumeUpToDate(file)
\* for a platform override and for no other, copyFile for a copy,
\* copyDirectory for a directory copy, threeWayMerge with the pinned
\* baseVersion for a derived or patch override.
C6_UpgradeStrategy ==
    last.op = "upgradeStrategy" =>
        /\ last.ret =
             CASE ovr.class = "PlatformOverride" ->
                    [strategy |-> "assumeUpToDate", params |-> <<ovr.overrideFile>>]
               [] ovr.class = "CopyOverride" ->
                    [strategy |-> "copyFile", params |-> <<ovr.overrideFile, ovr.baseFile>>]
               [] ovr.class = "DirectoryCopyOverride" ->
                    [strategy |-> "copyDirectory", params |-> <<ovr.directory, ovr.baseDirectory>>]
               [] ovr.class \in {"DerivedOverride", "PatchOverride"} ->
                    [strategy |-> "threeWayMerge",
                     params |-> <<ovr.overrideFile, ovr.baseFile, ovr.baseVersion>>]
        /\ (last.ret.strategy = "assumeUpToDate") = (ovr.class = "PlatformOverride")

\* The upgrade strategy of a patch override pinned to 0.62.2 has been asked for.
C6_Witness ==
    /\ last.op = "upgradeStrategy"
    /\ ovr.class = "PatchOverride"
    /\ ovr.baseVersion = "0.62.2"

\* C7: no call on an override changes it: across every step but the
\* caller's replacement of its entry, an instance that exists keeps every
\* field, and a settled createUpdated hands its result over separately.
C7_Immutable ==
    [][(IsOverride(ovr) /\ last'.op # "replace") => ovr' = ovr]_vars

\* createUpdated has handed over a re-pinned instance while the receiver keeps its old pin.
C7_Witness ==
    /\ last.op = "createUpdated"
    /\ last.promise.state = "fulfilled"
    /\ ovr.class = "CopyOverride"
    /\ ovr.baseHash = "h1"
    /\ last.promise.value.baseHash = "h2"

FactoryMethodOf(cls) ==
    CASE cls = "PlatformOverride" -> "createPlatformOverride"
      [] cls = "CopyOverride" -> "createCopyOverride"
      [] cls = "DerivedOverride" -> "createDerivedOverride"
      [] cls = "PatchOverride" -> "createPatchOverride"
      [] cls = "DirectoryCopyOverride" -> "createDirectoryCopyOverride"

\* C8: createUpdated calls the create method of the receiver's own variant
\* with the receiver's override path, base path and issue; the override it
\* is given back is of the same variant, with the same name, base path and
\* issue, and differs from the receiver at most in baseVersion and baseHash.
C8_CreateUpdatedSameVariant ==
    /\ pending.state = "awaiting" =>
         /\ pending.call.method = FactoryMethodOf(ovr.class)
         /\ IF ovr.class = "DirectoryCopyOverride"
            THEN /\ pending.call.directory = ovr.directory
                 /\ pending.call.baseDirectory = ovr.baseDirectory
                 /\ pending.call.issue = ovr.issue
            ELSE /\ pending.call.file = ovr.overrideFile
                 /\ ovr.class \in FileClasses =>
                      /\ pending.call.baseFile = ovr.baseFile
                      /\ JsOr(pending.call.issue, JsNull) = ovr.issueNumber
    /\ (last.op = "createUpdated" /\ last.promise.state = "fulfilled") =>
         /\ last.promise.value.class = ovr.class
         /\ name(last.promise.value) = name(ovr)
         /\ IF ovr.class = "PlatformOverride"
            THEN last.promise.value = ovr
            ELSE \E snapshot \in Snapshots :
                    last.promise.value = [ovr EXCEPT !.baseVersion = snapshot.baseVersion,
                                                     !.baseHash = snapshot.baseHash]

\* A patch override pinned to h1 was given back re-pinned to h2.
C8_Witness ==
    /\ last.op = "createUpdated"
    /\ last.promise.state = "fulfilled"
    /\ ovr.class = "PatchOverride"
    /\ ovr.issueNumber = LEGACY_FIXME
    /\ ovr.baseHash = "h1"
    /\ last.promise.value.baseHash = "h2"

\* C9: when the factory's promise is rejected because the upstream path does
\* not resolve, the promise of createUpdated is rejected with that same
\* error, carries no override, and the receiver is as it was.
C9_ResolutionErrorPropagates ==
    [][pending.state = "rejected" =>
          /\ last'.op = "createUpdated"
          /\ last'.promise.state = "rejected"
          /\ last'.promise.reason = pending.reason
          /\ "value" \notin DOMAIN last'.promise
          /\ ovr' = ovr]_vars

\* The createUpdated of a directory copy ended in the factory's resolution error.
C9_Witness ==
    /\ last.op = "createUpdated"
    /\ last.promise.state = "rejected"
    /\ last.promise.reason = UpstreamResolutionError
    /\ ovr.class = "DirectoryCopyOverride"

(***************************************************************************)
(* includesFile on its own (SpecPaths): one override, one query.           *)
(***************************************************************************)
\* The downstream paths the queried overrides are built with.
ScopePaths ==
    {<<"a">>, <<"a", "/", "b">>, <<"a", "\\", "b">>, <<"a", "/", "b", "/">>, DOT,
     <<".", ".", "/", "a">>, <<"b", "/", ".", ".", "/", "a">>}

Cwds == {<<>>, << <<"w">> >>}

InitPaths ==
    /\ holder = <<>>
    /\ transport = <<>>
    /\ cli = <<>>
    /\ platform \in Platforms
    /\ manifest = <<>>
    /\ tasks = <<>>
    /\ pending = NoCall
    /\ reactRepo = NoTree
    /\ overrideRepo = NoTree
    /\ \E f \in ScopePaths :
          \/ /\ cwd \in Cwds
             /\ ovr = DirectoryCopyOverride([directory |-> f, baseDirectory |-> <<"b">>,
                                             baseVersion |-> "0.61.5", baseHash |-> "h1",
                                             issue |-> JsNumber(7)])
          \/ /\ cwd = << <<"w">> >>
             /\ ovr \in {PlatformOverride([file |-> f])}
                        \cup {New(cls, [file |-> f, baseFile |-> <<"b">>,
                                        baseVersion |-> "0.61.5", baseHash |-> "h1",
                                        issue |-> JsNumber(7)]) : cls \in FileClasses}
    /\ last = [op |-> "new", class |-> ovr.class]

NextPaths ==
    /\ last.op = "new"
    /\ \E filename \in QueryPaths : CallIncludesFile(filename)

SpecPaths == InitPaths /\ [][NextPaths]_vars

\* Where a path leads, as the names from the root: every separator style
\* separates, "" and "." stay, ".." goes up (and stays at the root).
RECURSIVE Walk(_, _)
Walk(at, segs) ==
    IF segs = <<>> THEN at
    ELSE IF Head(segs) \in {EMPTY, DOT} THEN Walk(at, Tail(segs))
    ELSE IF Head(segs) = DOTDOT
         THEN Walk(IF at = <<>> THEN at ELSE SubSeq(at, 1, Len(at) - 1), Tail(segs))
         ELSE Walk(Append(at, Head(segs)), Tail(segs))

Location(p) == Walk(cwd, SplitAcc(p, {SLASH, BACKSLASH}, <<>>, <<>>))

\* p leads to d or to somewhere below d.
Within(d, p) ==
    /\ Len(Location(d)) <= Len(Location(p))
    /\ SubSeq(Location(p), 1, Len(Location(d))) = Location(d)

\* C3: a directory copy includes a path exactly when the path, whatever
\* separators and "." or ".." segments it is written with, leads to the
\* directory or below it.
C3_DirectoryIncludes ==
    (last.op = "includesFile" /\ ovr.class = "DirectoryCopyOverride") =>
        last.ret = Within(ovr.directory, last.arg)

\* A path written with a ".." segment that leads below the directory was included.
C3_Witness ==
    /\ last.op = "includesFile"
    /\ ovr.class = "DirectoryCopyOverride"
    /\ ovr.directory = <<"a">>
    /\ last.arg = <<"b", "/", ".", ".", "/", "a", "/", "b">>
    /\ last.ret = TRUE

\* C4: a file override includes a path exactly when the normalized path is
\* its normalized override file, whatever its base file is.
C4_FileIncludes ==
    (last.op = "includesFile" /\ ovr.class # "DirectoryCopyOverride") =>
        last.ret = (normalizePath(last.arg) = ovr.overrideFile)

\* A derived override was asked about another spelling of its own file and said yes.
C4_Witness ==
    /\ last.op = "includesFile"
    /\ ovr.class = "DerivedOverride"
    /\ platform = "posix"
    /\ ovr.overrideFile = <<"a", "/", "b">>
    /\ last.arg = <<"a", "\\", ".", "\\", "b">>
    /\ last.ret = TRUE

(***************************************************************************)
(* Validation against the two trees (SpecValidate). A tree gives the       *)
(* content found at a path, NoContent when nothing is there; a directory   *)
(* is taken as one content, the way it is hashed as one.                   *)
(***************************************************************************)
NoContent == "missing"
Contents == {"c1", "c2"}
NoHash == "none"

\* The content hash: one hash per content.
Hash(content) ==
    CASE content = "c1" -> "h1"
      [] content = "c2" -> "h2"
      [] OTHER -> NoHash

\* The paths the trees hold something at, in their unix form.
RepoKeys == {<<"a">>, <<"u", "/", "v">>}

Lookup(repo, path) ==
    IF unixPath(path) \in DOMAIN repo THEN repo[unixPath(path)] ELSE NoContent

\* What a check may report in the given trees. Where the spec does not say
\* what a check reports (a content check on a missing path) it may report
\* either.
Validate(c, downstream, upstream) ==
    CASE c.check \in {"overrideFileExists", "overrideDirectoryExists"} ->
            IF Lookup(downstream, c.params[1]) # NoContent THEN {"pass"} ELSE {"fail"}
      [] c.check \in {"baseFileExists", "baseDirectoryExists"} ->
            IF Lookup(upstream, c.params[2]) # NoContent THEN {"pass"} ELSE {"fail"}
      [] c.check = "baseUpToDate" ->
            IF Lookup(upstream, c.params[2]) = NoContent THEN {"pass", "fail"}
            ELSE IF Hash(Lookup(upstream, c.params[2])) = c.params[3]
                 THEN {"pass"} ELSE {"fail"}
      [] c.check = "overrideCopyOfBase" ->
            IF NoContent \in {Lookup(downstream, c.params[1]), Lookup(upstream, c.params[2])}
            THEN {"pass", "fail"}
            ELSE IF Lookup(downstream, c.params[1]) = Lookup(upstream, c.params[2])
                 THEN {"pass"} ELSE {"fail"}
      [] c.check = "overrideDifferentFromBase" ->
            IF NoContent \in {Lookup(downstream, c.params[1]), Lookup(upstream, c.params[2])}
            THEN {"pass", "fail"}
            ELSE IF Lookup(downstream, c.params[1]) # Lookup(upstream, c.params[2])
                 THEN {"pass"} ELSE {"fail"}

\* The overrides validated: downstream path a, upstream path u/v.
ValidateReceivers ==
    {PlatformOverride([file |-> <<"a">>])}
    \cup {New(cls, [file |-> <<"a">>, baseFile |-> b, issue |-> JsNumber(7)] @@ pin) :
            cls \in FileClasses, b \in BasePaths, pin \in Snapshots}
    \cup {DirectoryCopyOverride([directory |-> <<"a">>, baseDirectory |-> b,
                                 issue |-> JsNumber(7)] @@ pin) :
            b \in BasePaths, pin \in Snapshots}

InitValidate ==
    /\ holder = <<>>
    /\ transport = <<>>
    /\ cli = <<>>
    /\ platform \in Platforms
    /\ manifest = <<>>
    /\ tasks = <<>>
    /\ cwd = <<>>
    /\ ovr \in ValidateReceivers
    /\ pending = NoCall
    /\ last = [op |-> "new", class |-> ovr.class]
    /\ reactRepo = [k \in RepoKeys |-> "c1"]
    /\ overrideRepo = [k \in RepoKeys |-> "c1"]

\* The i-th strategy of validationStrategies() is run against the two trees.
RunValidation(i, outcome) ==
    /\ IsOverride(ovr)
    /\ i \in DOMAIN validationStrategies(ovr)
    /\ outcome \in Validate(validationStrategies(ovr)[i], overrideRepo, reactRepo)
    /\ last' = [op |-> "validate", check |-> validationStrategies(ovr)[i].check, ret |-> outcome]
    /\ UNCHANGED <<holder, transport, cli, manifest, tasks, platform, cwd, ovr, pending, reactRepo, overrideRepo>>

\* The upstream tree moves: a path gets new content, or is removed.
UpstreamChanges(k, content) ==
    /\ reactRepo[k] # content
    /\ reactRepo' = [reactRepo EXCEPT ![k] = content]
    /\ last' = [op |-> "upstream"]
    /\ UNCHANGED <<holder, transport, cli, manifest, tasks, platform, cwd, ovr, pending, overrideRepo>>

\* The downstream tree is edited.
DownstreamChanges(k, content) ==
    /\ overrideRepo[k] # content
    /\ overrideRepo' = [overrideRepo EXCEPT ![k] = content]
    /\ last' = [op |-> "downstream"]
    /\ UNCHANGED <<holder, transport, cli, manifest, tasks, platform, cwd, ovr, pending, reactRepo>>

\* The version label of the upstream checkout that holds the given content.
VersionOf(content) ==
    CASE content = "c1" -> "0.61.5"
      [] content = "c2" -> "0.62.2"
      [] OTHER -> "none"

\* The upstream path a factory call has to resolve; none for a platform override.
CallBasePath(call) ==
    CASE "baseFile" \in DOMAIN call -> call.baseFile
      [] "baseDirectory" \in DOMAIN call -> call.baseDirectory
      [] OTHER -> <<>>

\* The factory can resolve the call against the upstream tree as it is now.
Resolvable(call) ==
    \/ call.method = "createPlatformOverride"
    \/ Lookup(reactRepo, CallBasePath(call)) # NoContent

\* What the factory pins a fresh override to: the upstream tree as it is now.
UpstreamSnapshot(call) ==
    [baseVersion |-> VersionOf(Lookup(reactRepo, CallBasePath(call))),
     baseHash |-> Hash(Lookup(reactRepo, CallBasePath(call)))]

\* The trees stay as they are while a createUpdated call is in flight. The
\* factory pins to the upstream tree it finds and rejects when the upstream
\* path is not there; no step of createUpdated writes to either tree.
NextValidate ==
    \/ \E i \in 1..4 : \E outcome \in {"pass", "fail"} : RunValidation(i, outcome)
    \/ (pending = NoCall /\ \E k \in RepoKeys : \E content \in Contents \cup {NoContent} :
            UpstreamChanges(k, content))
    \/ (pending = NoCall /\ \E k \in RepoKeys : \E content \in Contents \cup {NoContent} :
            DownstreamChanges(k, content))
    \/ CallCreateUpdated
    \/ (pending.state = "awaiting" /\ Resolvable(pending.call)
            /\ FactoryFulfils(UpstreamSnapshot(pending.call)))
    \/ (pending.state = "awaiting" /\ ~Resolvable(pending.call) /\ FactoryRejects)
    \/ CreateUpdatedSettles
    \/ ReplaceEntry

SpecValidate == InitValidate /\ [][NextValidate]_vars

BasePathOf(o) == IF o.class = "DirectoryCopyOverride" THEN o.baseDirectory ELSE o.baseFile

\* C10: for a file-linked or directory-copy override whose upstream path
\* exists, baseUpToDate fails exactly when the hash of the upstream content
\* differs from the override's stored baseHash, whatever the downstream
\* tree holds.
C10_BaseUpToDate ==
    (/\ last.op = "validate"
     /\ last.check = "baseUpToDate"
     /\ Lookup(reactRepo, BasePathOf(ovr)) # NoContent) =>
        (last.ret = "fail") = (Hash(Lookup(reactRepo, BasePathOf(ovr))) # ovr.baseHash)

\* A directory copy whose downstream is an exact copy of the upstream was
\* reported stale, its pin being of an older upstream.
C10_Witness ==
    /\ last.op = "validate"
    /\ last.check = "baseUpToDate"
    /\ last.ret = "fail"
    /\ ovr.class = "DirectoryCopyOverride"
    /\ ovr.baseHash = "h1"
    /\ Lookup(reactRepo, ovr.baseDirectory) = "c2"
    /\ Lookup(overrideRepo, ovr.directory) = "c2"

\* The strategy of the given name in an override's validation list.
StrategyOf(o, checkName) ==
    LET list == validationStrategies(o)
    IN list[CHOOSE i \in DOMAIN list : list[i].check = checkName]

\* What the named check of the override reports against the trees as they are.
Reports(o, checkName) == Validate(StrategyOf(o, checkName), overrideRepo, reactRepo)

\* createUpdated of a stale copy override has fulfilled; the entry is not yet replaced.
StaleCopyUpdated ==
    /\ last.op = "createUpdated"
    /\ last.promise.state = "fulfilled"
    /\ ovr.class = "CopyOverride"
    /\ Hash(Lookup(reactRepo, ovr.baseFile)) # ovr.baseHash

\* C11, as the claim states it: for a CopyOverride whose stored baseHash
\* differs from the upstream's current hash, the override createUpdated gives
\* has the upstream's current hash as its baseHash, and for it baseUpToDate
\* passes and overrideCopyOfBase passes.
C11_AsClaimed ==
    StaleCopyUpdated =>
        /\ last.promise.value.baseHash = Hash(Lookup(reactRepo, ovr.baseFile))
        /\ Reports(last.promise.value, "baseUpToDate") = {"pass"}
        /\ Reports(last.promise.value, "overrideCopyOfBase") = {"pass"}

\* C11, amended: for a CopyOverride whose stored baseHash differs from the
\* upstream's current hash, the override createUpdated gives has the
\* upstream's current hash as its baseHash and baseUpToDate passes for it;
\* createUpdated leaves the downstream content as it is, so with the
\* downstream file present overrideCopyOfBase passes for the new override
\* exactly when the downstream content equals the upstream's current content.
C11_RepinnedNotRecopied ==
    StaleCopyUpdated =>
        /\ last.promise.value.class = "CopyOverride"
        /\ last.promise.value.baseHash = Hash(Lookup(reactRepo, ovr.baseFile))
        /\ Reports(last.promise.value, "baseUpToDate") = {"pass"}
        /\ Lookup(overrideRepo, ovr.overrideFile) # NoContent =>
              (Reports(last.promise.value, "overrideCopyOfBase") = {"pass"})
                = (Lookup(overrideRepo, ovr.overrideFile) = Lookup(reactRepo, ovr.baseFile))

\* A copy pinned to h1, of an upstream that has moved to c2 while the
\* downstream still holds c1: createUpdated gave an override pinned to h2,
\* for which overrideCopyOfBase fails.
C11_Witness ==
    /\ StaleCopyUpdated
    /\ ovr.baseHash = "h1"
    /\ last.promise.value.baseHash = "h2"
    /\ Lookup(overrideRepo, ovr.overrideFile) = "c1"
    /\ Reports(last.promise.value, "overrideCopyOfBase") = {"fail"}

\* The downstream content of a derived or patch override is present and
\* byte-identical to its upstream content.
IdenticalToBase ==
    /\ ovr.class \in {"DerivedOverride", "PatchOverride"}
    /\ Lookup(overrideRepo, ovr.overrideFile) # NoContent
    /\ Lookup(overrideRepo, ovr.overrideFile) = Lookup(reactRepo, ovr.baseFile)

\* C12: a Derived or Patch override whose downstream content is
\* byte-identical to its upstream content has overrideDifferentFromBase in
\* its validation list, that check can only fail, and a validation run of it
\* has reported a failure.
C12_IdenticalFailsValidation ==
    IdenticalToBase =>
        /\ \E i \in DOMAIN validationStrategies(ovr) :
              /\ validationStrategies(ovr)[i].check = "overrideDifferentFromBase"
              /\ Validate(validationStrategies(ovr)[i], overrideRepo, reactRepo) = {"fail"}
        /\ (last.op = "validate" /\ last.check = "overrideDifferentFromBase") =>
              last.ret = "fail"

\* A patch override in date with its upstream, whose downstream file holds
\* the upstream's content, was validated and overrideDifferentFromBase failed.
C12_Witness ==
    /\ IdenticalToBase
    /\ ovr.class = "PatchOverride"
    /\ ovr.baseHash = Hash(Lookup(reactRepo, ovr.baseFile))
    /\ last.op = "validate"
    /\ last.check = "overrideDifferentFromBase"
    /\ last.ret = "fail"

(***************************************************************************)
(* Loading manifest records, malformed ones included (SpecLoad).           *)
(***************************************************************************)
\* The type tags deserializeOverride has a case for.
KnownTypes == {"platform", "copy", "derived", "patch"}

\* The fields a record of its shape has to carry.
RequiredFields(rec) ==
    CASE rec.type = "platform" -> {"file"}
      [] "directory" \in DOMAIN rec \/ "baseDirectory" \in DOMAIN rec ->
            {"directory", "baseDirectory", "baseVersion", "baseHash"}
      [] OTHER -> {"file", "baseFile", "baseVersion", "baseHash"}

Malformed(rec) ==
    \/ rec.type \notin KnownTypes
    \/ ~(RequiredFields(rec) \subseteq DOMAIN rec)

\* The record without one of its fields.
Without(rec, field) == [k \in DOMAIN rec \ {field} |-> rec[k]]

\* Well-shaped records of one-segment paths, and what is left of each when
\* one required field is missing; records under a tag no variant has.
LoadableRecords ==
    {[type |-> "platform", file |-> f] : f \in PathsUpTo(1)}
    \cup {[type |-> t, file |-> f, baseFile |-> b, issue |-> JsNumber(7)] @@ pin :
            t \in {"copy", "derived", "patch"}, f \in PathsUpTo(1), b \in BasePaths,
            pin \in Snapshots}
    \cup {[type |-> "copy", directory |-> f, baseDirectory |-> b, issue |-> JsNumber(7)] @@ pin :
            f \in PathsUpTo(1), b \in BasePaths, pin \in Snapshots}

MalformedRecords ==
    ({Without(rec, field) : rec \in LoadableRecords,
                            field \in {"file", "baseFile", "directory", "baseDirectory",
                                       "baseVersion", "baseHash"}}
        \ LoadableRecords)
    \cup {[rec EXCEPT !.type = "unknown"] : rec \in LoadableRecords}

NextLoad ==
    \/ (last.op = "none" /\ \E rec \in LoadableRecords \cup MalformedRecords : LoadRecord(rec))
    \/ CallSerialize

SpecLoad == Init /\ [][NextLoad]_vars

\* C13: deserializeOverride applied to a record with an unknown type
\* discriminator, or with a required field missing, ends in an error: it
\* returns neither an override nor undefined.
C13_MalformedFailsLoudly ==
    (last.op = "deserializeOverride" /\ Malformed(last.arg)) => IsThrown(last.ret)

(***************************************************************************)
(* The manifest (SpecManifest): the collection of overrides, loaded from a *)
(* list of records, validated entry by entry against the two trees, and    *)
(* upgraded by replacing an entry with what its createUpdated gives.       *)
(* Validations and upgrades of different entries interleave.               *)
(***************************************************************************)
UA == <<"u", "/", "a">>
UB == <<"u", "/", "b">>
UC == <<"u", "/", "c">>

Pinned(rec) == rec @@ [baseVersion |-> "0.61.5", baseHash |-> "h1", issue |-> JsNumber(7)]

\* The record lists loaded: two manifests, and two lists in which two
\* records name the same file once their paths are normalized.
ManifestFiles ==
    { << [type |-> "platform", file |-> <<"a">>],
         [type |-> "platform", file |-> <<"b">>],
         Pinned([type |-> "copy", directory |-> <<"c">>, baseDirectory |-> UC]) >>,
      << Pinned([type |-> "copy", file |-> <<"a">>, baseFile |-> UA]),
         Pinned([type |-> "patch", file |-> <<"b">>, baseFile |-> UB]) >>,
      << Pinned([type |-> "copy", file |-> <<"a">>, baseFile |-> UA]),
         Pinned([type |-> "derived", file |-> <<".", "\\", "a">>, baseFile |-> UB]) >>,
      << [type |-> "platform", file |-> <<"b">>],
         Pinned([type |-> "copy", directory |-> <<"a", "/", "..", "/", "b">>,
                 baseDirectory |-> UB]) >> }

DownstreamKeys == {<<"a">>, <<"b">>, <<"c">>}
UpstreamKeys == {UA, UB, UC}

\* The paths of the two trees a list of records refers to.
KeysOf(recs) ==
    UNION {{unixPath(normalizePath(recs[i][f])) :
                f \in DOMAIN recs[i] \cap {"file", "directory", "baseFile", "baseDirectory"}} :
           i \in DOMAIN recs}

\* The trees differ from a plain checkout only at paths the records refer to.
TreesFit(recs) ==
    /\ \A k \in DownstreamKeys \ KeysOf(recs) : overrideRepo[k] = "c1"
    /\ \A k \in UpstreamKeys \ KeysOf(recs) : reactRepo[k] = "c1"

Idle == [validation |-> [state |-> "idle"], upgrade |-> [state |-> "none"]]

InitManifest ==
    /\ holder = <<>>
    /\ transport = <<>>
    /\ cli = <<>>
    /\ platform \in Platforms
    /\ cwd = <<>>
    /\ ovr = NoOverride
    /\ pending = NoCall
    /\ last = [op |-> "none"]
    /\ reactRepo \in [UpstreamKeys -> Contents \cup {NoContent}]
    /\ overrideRepo \in [DownstreamKeys -> Contents \cup {NoContent}]
    /\ manifest = <<>>
    /\ tasks = <<>>

\* Two entries of the list have the same name.
DuplicateNames(ovs) ==
    \E i, j \in DOMAIN ovs : i # j /\ name(ovs[i]) = name(ovs[j])

\* The manifest is loaded: every record is rehydrated; two overrides of one
\* name abort the load, which leaves the manifest as it was.
LoadManifest(recs) ==
    /\ last.op = "none"
    /\ TreesFit(recs)
    /\ LET ovs == [i \in DOMAIN recs |-> deserializeOverride(recs[i])]
       IN IF DuplicateNames(ovs)
          THEN /\ last' = [op |-> "load", arg |-> recs, error |-> "duplicate override name"]
               /\ UNCHANGED <<manifest, tasks>>
          ELSE /\ last' = [op |-> "load", arg |-> recs, error |-> "none"]
               /\ manifest' = ovs
               /\ tasks' = [i \in DOMAIN recs |-> Idle]
    /\ UNCHANGED <<holder, transport, cli, platform, cwd, ovr, pending, reactRepo, overrideRepo>>

\* The validation pass reaches entry i: its strategies start to run, reading
\* the entry and the two trees.
StartValidation(i) ==
    /\ tasks[i].validation.state # "running"
    /\ tasks' = [tasks EXCEPT ![i].validation = [state |-> "running"]]
    /\ last' = [op |-> "startValidation", entry |-> i]
    /\ UNCHANGED <<holder, transport, cli, manifest, platform, cwd, ovr, pending, reactRepo, overrideRepo>>

\* Every strategy of entry i has run; its results, one per strategy, in the
\* order of the list, are reported for the entry.
FinishValidation(i, outs) ==
    /\ tasks[i].validation.state = "running"
    /\ LET list == validationStrategies(manifest[i])
       IN /\ DOMAIN outs = DOMAIN list
          /\ \A j \in DOMAIN list : outs[j] \in Validate(list[j], overrideRepo, reactRepo)
          /\ tasks' = [tasks EXCEPT ![i].validation =
                          [state |-> "done",
                           results |-> [j \in DOMAIN list |->
                                          [check |-> list[j].check, ret |-> outs[j]]]]]
    /\ last' = [op |-> "finishValidation", entry |-> i]
    /\ UNCHANGED <<holder, transport, cli, manifest, platform, cwd, ovr, pending, reactRepo, overrideRepo>>

\* The reported results of entry i say that the named check failed.
ReportedFailure(i, checkName) ==
    /\ tasks[i].validation.state = "done"
    /\ \E j \in DOMAIN tasks[i].validation.results :
          /\ tasks[i].validation.results[j].check = checkName
          /\ tasks[i].validation.results[j].ret = "fail"

\* The reconciliation flow: entry i was reported stale, and createUpdated is
\* called on it.
StartUpgrade(i) ==
    /\ tasks[i].upgrade.state = "none"
    /\ ReportedFailure(i, "baseUpToDate")
    /\ tasks' = [tasks EXCEPT ![i].upgrade =
                    [state |-> "awaiting", call |-> createUpdated(manifest[i])]]
    /\ last' = [op |-> "startUpgrade", entry |-> i]
    /\ UNCHANGED <<holder, transport, cli, manifest, platform, cwd, ovr, pending, reactRepo, overrideRepo>>

\* What the factory's promise settles to for a call, the upstream tree being as it is.
FactoryPromise(call) ==
    IF Resolvable(call)
    THEN [state |-> "fulfilled", value |-> OverrideFactory_create(call, UpstreamSnapshot(call))]
    ELSE [state |-> "rejected", reason |-> UpstreamResolutionError]

\* The factory call of entry i's createUpdated settles, and with it the
\* promise createUpdated returned.
FactorySettles(i) ==
    /\ tasks[i].upgrade.state = "awaiting"
    /\ tasks' = [tasks EXCEPT ![i].upgrade =
                    [state |-> "settled",
                     factory |-> FactoryPromise(tasks[i].upgrade.call).state,
                     promise |-> createUpdated_promise(FactoryPromise(tasks[i].upgrade.call))]]
    /\ last' = [op |-> "factorySettles", entry |-> i]
    /\ UNCHANGED <<holder, transport, cli, manifest, platform, cwd, ovr, pending, reactRepo, overrideRepo>>

\* Replacing entry i by the override would give the manifest two entries of one name.
NameTaken(i, o) ==
    /\ IsOverride(o)
    /\ \E j \in DOMAIN manifest : j # i /\ name(manifest[j]) = name(o)

\* A slip: the entry is replaced as soon as the promise has settled, whether
\* or not a validation is reading it.
CompleteUpgrade_whileRead(i) ==
    /\ tasks[i].upgrade.state = "settled"
    /\ LET promise == tasks[i].upgrade.promise
       IN IF promise.state = "rejected"
          THEN /\ tasks' = [tasks EXCEPT ![i].upgrade =
                               [state |-> "failed", reason |-> promise.reason]]
               /\ UNCHANGED manifest
          ELSE /\ manifest' = [manifest EXCEPT ![i] = promise.value]
               /\ tasks' = [tasks EXCEPT ![i].upgrade = [state |-> "replaced"]]
    /\ last' = [op |-> "completeUpgrade", entry |-> i]
    /\ UNCHANGED <<holder, transport, cli, platform, cwd, ovr, pending, reactRepo, overrideRepo>>

\* The upgrade of entry i completes, no read of the entry being in flight:
\* a fulfilled createUpdated replaces the whole entry by the instance it
\* gave; a rejected one leaves the entry and fails this upgrade alone.
CompleteUpgrade(i) ==
    /\ tasks[i].upgrade.state = "settled"
    /\ tasks[i].validation.state # "running"
    /\ LET promise == tasks[i].upgrade.promise
       IN CASE promise.state = "rejected" ->
                 /\ tasks' = [tasks EXCEPT ![i].upgrade =
                                 [state |-> "failed", reason |-> promise.reason]]
                 /\ UNCHANGED manifest
            [] promise.state = "fulfilled" /\ NameTaken(i, promise.value) ->
                 /\ tasks' = [tasks EXCEPT ![i].upgrade =
                                 [state |-> "failed", reason |-> "duplicate override name"]]
                 /\ UNCHANGED manifest
            [] OTHER ->
                 /\ manifest' = [manifest EXCEPT ![i] = promise.value]
                 /\ tasks' = [tasks EXCEPT ![i] =
                                 [validation |-> [state |-> "idle"],
                                  upgrade |-> [state |-> "replaced"]]]
    /\ last' = [op |-> "completeUpgrade", entry |-> i]
    /\ UNCHANGED <<holder, transport, cli, platform, cwd, ovr, pending, reactRepo, overrideRepo>>

\* The result lists a validation of up to four strategies can report.
ResultLists == UNION {[1..n -> {"pass", "fail"}] : n \in 0..4}

NextManifest ==
    \/ (last.op = "none" /\ \E recs \in ManifestFiles : LoadManifest(recs))
    \/ \E i \in DOMAIN manifest : StartValidation(i)
    \/ \E i \in DOMAIN manifest : \E outs \in ResultLists : FinishValidation(i, outs)
    \/ \E i \in DOMAIN manifest : StartUpgrade(i)
    \/ \E i \in DOMAIN manifest : FactorySettles(i)
    \/ \E i \in DOMAIN manifest : CompleteUpgrade(i)

SpecManifest == InitManifest /\ [][NextManifest]_vars

\* Every entry of a loaded manifest has its validation results: a pass is complete.
PassComplete ==
    /\ manifest # <<>>
    /\ \A i \in DOMAIN manifest : tasks[i].validation.state = "done"

\* The downstream file or directory of entry i is missing.
DownstreamMissing(i) == Lookup(overrideRepo, name(manifest[i])) = NoContent

\* Entry i is valid: each of its checks passes against the trees as they are.
FullyValid(i) ==
    \A j \in DOMAIN validationStrategies(manifest[i]) :
        Validate(validationStrategies(manifest[i])[j], overrideRepo, reactRepo) = {"pass"}

\* All the reported results of entry i are passes.
ReportedValid(i) ==
    /\ tasks[i].validation.state = "done"
    /\ \A j \in DOMAIN tasks[i].validation.results : tasks[i].validation.results[j].ret = "pass"

\* C14: a validation pass reports, for each of the N entries, one result per
\* strategy of the entry's list, in the list's order; no result of another
\* entry keeps the validation of an entry from starting; and when exactly
\* one entry has a missing downstream file and the others are valid, the
\* complete pass reports an existence failure for that one and only passes
\* for the others.
C14_PassReportsEveryOverride ==
    /\ \A i \in DOMAIN manifest :
          /\ tasks[i].validation.state = "idle" => ENABLED StartValidation(i)
          /\ tasks[i].validation.state = "done" =>
                /\ DOMAIN tasks[i].validation.results = DOMAIN validationStrategies(manifest[i])
                /\ \A j \in DOMAIN tasks[i].validation.results :
                      /\ tasks[i].validation.results[j].check
                            = validationStrategies(manifest[i])[j].check
                      /\ tasks[i].validation.results[j].ret
                            \in Validate(validationStrategies(manifest[i])[j],
                                         overrideRepo, reactRepo)
    /\ PassComplete =>
          \A m \in DOMAIN manifest :
              (/\ DownstreamMissing(m)
               /\ \A i \in DOMAIN manifest \ {m} : FullyValid(i)) =>
                  /\ \/ ReportedFailure(m, "overrideFileExists")
                     \/ ReportedFailure(m, "overrideDirectoryExists")
                  /\ \A i \in DOMAIN manifest \ {m} : ReportedValid(i)

\* A pass over three entries is complete: the first, a platform override
\* whose file is missing, has an existence failure; the two others pass.
C14_Witness ==
    /\ PassComplete
    /\ Len(manifest) = 3
    /\ DownstreamMissing(1)
    /\ ReportedFailure(1, "overrideFileExists")
    /\ ReportedValid(2)
    /\ ReportedValid(3)
    /\ manifest[3].class = "DirectoryCopyOverride"

\* The downstream path an override stands for, as the instance holds it.
DownstreamPath(o) == IF o.class = "DirectoryCopyOverride" THEN o.directory ELSE o.overrideFile

\* The downstream path a record gives, as written in the record.
RecordPath(rec) == IF "directory" \in DOMAIN rec THEN rec.directory ELSE rec.file

\* Two records of the list give the same downstream path once normalized.
SameDownstreamPath(recs) ==
    \E i, j \in DOMAIN recs :
        i # j /\ normalizePath(RecordPath(recs[i])) = normalizePath(RecordPath(recs[j]))

\* C15: no two overrides of the manifest stand for the same downstream
\* path, their name; a load of records of which two give the same path once
\* normalized reports a duplicate name and leaves the manifest as it was,
\* and no upgrade replaces an entry by an override whose name another entry has.
C15_UniqueNames ==
    /\ \A i, j \in DOMAIN manifest :
          i # j => DownstreamPath(manifest[i]) # DownstreamPath(manifest[j])
    /\ (last.op = "load" /\ SameDownstreamPath(last.arg)) =>
          (last.error = "duplicate override name" /\ manifest = <<>>)
    /\ (last.op = "load" /\ ~SameDownstreamPath(last.arg)) =>
          (last.error = "none" /\ Len(manifest) = Len(last.arg))

\* A load was aborted: its two records give the same file, written "a" in
\* one and ".\a" in the other.
C15_Witness ==
    /\ last.op = "load"
    /\ last.error = "duplicate override name"
    /\ manifest = <<>>
    /\ last.arg[1].file = <<"a">>
    /\ last.arg[2].file = <<".", "\\", "a">>

\* The upgrade of entry i has failed on a resolution error.
UpgradeFailed(i) ==
    /\ tasks[i].upgrade.state = "failed"
    /\ tasks[i].upgrade.reason = UpstreamResolutionError

\* The batch can take the step of entry j's upgrade that is its to take:
\* the call of createUpdated on a stale entry, the completion once the
\* promise has settled.
UpgradeCanProceed(j) ==
    /\ (tasks[j].upgrade.state = "none" /\ ReportedFailure(j, "baseUpToDate")) =>
          ENABLED StartUpgrade(j)
    /\ (tasks[j].upgrade.state = "settled" /\ tasks[j].validation.state # "running") =>
          ENABLED CompleteUpgrade(j)

\* C16: in every step of a batch upgrade, the upgrades of the entries other
\* than one that failed on a resolution error can take each of their steps;
\* when the factory has rejected the createUpdated of entry i, the
\* completion of that upgrade fails it with the resolution error, leaves
\* every entry of the manifest as it was and touches no other entry's
\* upgrade; and an upgrade whose createUpdated was fulfilled replaces its
\* entry, and no other, by the instance the factory gave.
C16_ResolutionErrorIsolated ==
    [][/\ \A i, j \in DOMAIN manifest : (i # j /\ UpgradeFailed(i)) => UpgradeCanProceed(j)
       /\ \A i \in DOMAIN manifest :
            (tasks[i].upgrade.state = "settled" /\ tasks'[i].upgrade # tasks[i].upgrade) =>
                IF tasks[i].upgrade.factory = "rejected"
                THEN /\ manifest' = manifest
                     /\ tasks'[i].upgrade = [state |-> "failed", reason |-> UpstreamResolutionError]
                     /\ \A j \in DOMAIN manifest \ {i} : tasks'[j] = tasks[j]
                ELSE /\ tasks'[i].upgrade.state = "replaced"
                     /\ manifest'[i] = OverrideFactory_create(createUpdated(manifest[i]),
                                            UpstreamSnapshot(createUpdated(manifest[i])))
                     /\ \A j \in DOMAIN manifest \ {i} : manifest'[j] = manifest[j]]_vars

\* The upgrade of the first entry has failed, its upstream file being
\* missing, and the entry is still pinned to h1; the second entry, stale,
\* has been replaced by an instance pinned to h2.
C16_Witness ==
    /\ Len(manifest) = 2
    /\ UpgradeFailed(1)
    /\ manifest[1].baseHash = "h1"
    /\ Lookup(reactRepo, manifest[1].baseFile) = NoContent
    /\ tasks[2].upgrade.state = "replaced"
    /\ manifest[2].baseHash = "h2"
    /\ last = [op |-> "completeUpgrade", entry |-> 2]

\* The pin of an override is that of one upstream checkout: its hash and
\* its version label go together.
WholePin(o) ==
    o.class # "PlatformOverride" =>
        \E content \in Contents : o.baseHash = Hash(content) /\ o.baseVersion = VersionOf(content)

\* C17: with validations and upgrades of the entries interleaved, a step
\* that changes a loaded manifest changes exactly one entry, whose
\* createUpdated the factory has fulfilled, into the instance the factory
\* gave, while no validation of that entry is in flight; an entry a
\* validation is reading stays the same instance; and every entry is at all
\* times a whole override, its pin that of one upstream checkout.
C17_WholeEntryReplacement ==
    [][/\ \A i \in DOMAIN manifest : IsOverride(manifest[i]) /\ WholePin(manifest[i])
       /\ \A i \in DOMAIN manifest :
             tasks[i].validation.state = "running" => manifest'[i] = manifest[i]
       /\ (manifest # <<>> /\ manifest' # manifest) =>
             \E i \in DOMAIN manifest :
                 /\ DOMAIN manifest' = DOMAIN manifest
                 /\ \A j \in DOMAIN manifest \ {i} : manifest'[j] = manifest[j]
                 /\ tasks[i].upgrade.state = "settled"
                 /\ tasks[i].upgrade.factory = "fulfilled"
                 /\ tasks[i].validation.state # "running"
                 /\ manifest'[i] = FactoryPromise(createUpdated(manifest[i])).value
                 /\ IsOverride(manifest'[i])]_vars

\* The second entry has been replaced while a validation of the first was
\* in flight; the replacement of the first, whose createUpdated is
\* fulfilled too, waits for that validation.
C17_Witness ==
    /\ Len(manifest) = 2
    /\ tasks[1].validation.state = "running"
    /\ tasks[1].upgrade.state = "settled"
    /\ tasks[1].upgrade.factory = "fulfilled"
    /\ manifest[1].baseHash = "h1"
    /\ tasks[2].upgrade.state = "replaced"
    /\ manifest[2].baseHash = "h2"
    /\ last = [op |-> "completeUpgrade", entry |-> 2]

\* The stored baseHash of entry i is the hash of its upstream as it is now.
InDate(i) ==
    /\ manifest[i].class # "PlatformOverride"
    /\ manifest[i].baseHash = Hash(Lookup(reactRepo, BasePathOf(manifest[i])))

\* C18: the reconciliation flow calls createUpdated on an entry only when
\* the reported results of that entry say that baseUpToDate failed; an
\* entry whose stored baseHash is the upstream's current hash has no
\* createUpdated in flight and is not replaced, whatever its other results
\* are, and a platform override, which has no such check, is never upgraded.
C18_OnlyStaleIsRepinned ==
    [][\A i \in DOMAIN manifest :
          /\ (tasks[i].upgrade.state = "none" /\ tasks'[i].upgrade.state # "none") =>
                /\ ReportedFailure(i, "baseUpToDate")
                /\ tasks'[i].upgrade = [state |-> "awaiting", call |-> createUpdated(manifest[i])]
          /\ InDate(i) =>
                /\ tasks[i].upgrade.state \in {"none", "replaced"}
                /\ tasks'[i].upgrade = tasks[i].upgrade
                /\ manifest'[i] = manifest[i]
          /\ manifest[i].class = "PlatformOverride" => tasks[i].upgrade.state = "none"]_vars

\* A copy in date with its upstream whose downstream file differs from it:
\* overrideCopyOfBase was reported as failed, baseUpToDate as passed, and no
\* createUpdated was called; the other entry, stale, is being upgraded.
C18_Witness ==
    /\ Len(manifest) = 2
    /\ InDate(1)
    /\ manifest[1].class = "CopyOverride"
    /\ ReportedFailure(1, "overrideCopyOfBase")
    /\ ~ReportedFailure(1, "baseUpToDate")
    /\ tasks[1].upgrade.state = "none"
    /\ ~InDate(2)
    /\ tasks[2].upgrade.state = "awaiting"

(***************************************************************************)
(* Upgrading one override (SpecUpgrade): the strategy upgradeStrategy()    *)
(* names is applied to the downstream file. The upstream tree is kept per  *)
(* version, and a content is the sequence of the file's lines.             *)
(***************************************************************************)
LineTexts == {"foo", "bar", "baz"}

\* Contents of exactly n lines.
FilesOf(n) == [1..n -> LineTexts]

PinnedVersions == {"0.61.5", "0.62.2"}
\* The version the upstream checkout is at, the target of an upgrade.
TargetVersion == "0.62.2"

\* Line k was changed upstream and downstream, to different texts.
ConflictAt(pinned, target, downstream, k) ==
    /\ target[k] # pinned[k]
    /\ downstream[k] # pinned[k]
    /\ downstream[k] # target[k]

\* The three-way merge of files of the same number of lines: the downstream's
\* changes since the pinned upstream applied onto the new upstream; a line
\* both sides changed differently is a conflict, and nothing is merged.
ThreeWayMerge(pinned, target, downstream) ==
    IF \E k \in DOMAIN pinned : ConflictAt(pinned, target, downstream, k)
    THEN [hasConflicts |-> TRUE]
    ELSE [hasConflicts |-> FALSE,
          merged |-> [k \in DOMAIN pinned |->
                        IF downstream[k] # pinned[k] THEN downstream[k] ELSE target[k]]]

\* The overrides upgraded: downstream file a, upstream file u/v.
UpgradeReceivers ==
    {PlatformOverride([file |-> <<"a">>])}
    \cup {New(cls, [file |-> <<"a">>, baseFile |-> <<"u", "/", "v">>,
                    baseVersion |-> v, baseHash |-> "h1", issue |-> JsNumber(7)]) :
            cls \in FileClasses, v \in PinnedVersions}

InitUpgrade ==
    /\ holder = <<>>
    /\ transport = <<>>
    /\ cli = <<>>
    /\ platform \in Platforms
    /\ cwd = <<>>
    /\ manifest = <<>>
    /\ tasks = <<>>
    /\ pending = NoCall
    /\ ovr \in UpgradeReceivers
    /\ last = [op |-> "new", class |-> ovr.class]
    /\ \E n \in 1..MaxLines :
          /\ reactRepo \in [PinnedVersions -> [{<<"u", "/", "v">>} -> FilesOf(n)]]
          /\ overrideRepo \in [{<<"a">>} -> FilesOf(n)]

\* The strategy is applied: the downstream file is left alone, overwritten
\* by the upstream file, or overwritten by the merge when there is one.
ApplyUpgradeStrategy(s) ==
    CASE s.strategy = "assumeUpToDate" ->
            /\ last' = [op |-> "upgrade", strategy |-> s, result |-> "up to date"]
            /\ UNCHANGED overrideRepo
      [] s.strategy \in {"copyFile", "copyDirectory"} ->
            /\ last' = [op |-> "upgrade", strategy |-> s, result |-> "copied"]
            /\ overrideRepo' = [overrideRepo EXCEPT ![unixPath(s.params[1])] =
                                   reactRepo[TargetVersion][unixPath(s.params[2])]]
      [] s.strategy = "threeWayMerge" ->
            LET merge == ThreeWayMerge(reactRepo[s.params[3]][unixPath(s.params[2])],
                                       reactRepo[TargetVersion][unixPath(s.params[2])],
                                       overrideRepo[unixPath(s.params[1])])
            IN IF merge.hasConflicts
               THEN /\ last' = [op |-> "upgrade", strategy |-> s, result |-> "merge conflict"]
                    /\ UNCHANGED overrideRepo
               ELSE /\ last' = [op |-> "upgrade", strategy |-> s, result |-> "merged"]
                    /\ overrideRepo' = [overrideRepo EXCEPT ![unixPath(s.params[1])] =
                                           merge.merged]

\* The override's upgrade strategy is asked for and applied.
Upgrade ==
    /\ last.op = "new"
    /\ ApplyUpgradeStrategy(upgradeStrategy(ovr))
    /\ UNCHANGED <<holder, transport, cli, manifest, tasks, platform, cwd, ovr, pending, reactRepo>>

NextUpgrade == Upgrade

SpecUpgrade == InitUpgrade /\ [][NextUpgrade]_vars

\* The file of the upstream at the version the override is pinned to, at
\* the target version, and the downstream file.
PinnedUpstream == reactRepo[ovr.baseVersion][<<"u", "/", "v">>]
NewUpstream == reactRepo[TargetVersion][<<"u", "/", "v">>]
Downstream == overrideRepo[<<"a">>]

\* C19: the upgrade of a derived or patch override whose pinned upstream,
\* new upstream and downstream all differ on one line reports a merge
\* conflict, a result no other upgrade has, and writes nothing to the
\* downstream file: it takes neither the upstream's nor the downstream's
\* line into a merged result.
C19_ConflictReported ==
    [][/\ (/\ ovr.class \in {"DerivedOverride", "PatchOverride"}
            /\ \E k \in DOMAIN Downstream :
                  ConflictAt(PinnedUpstream, NewUpstream, Downstream, k)) =>
               /\ last'.op = "upgrade"
               /\ last'.strategy.strategy = "threeWayMerge"
               /\ last'.result = "merge conflict"
               /\ overrideRepo' = overrideRepo
       /\ last'.result = "merge conflict" =>
               \E k \in DOMAIN Downstream :
                  ConflictAt(PinnedUpstream, NewUpstream, Downstream, k)]_vars

\* The upgrade of a patch override of "baz", pinned to an upstream of
\* "foo" that is now "bar", has reported a merge conflict; the downstream
\* file is still "baz".
C19_Witness ==
    /\ last.op = "upgrade"
    /\ last.result = "merge conflict"
    /\ ovr.class = "PatchOverride"
    /\ PinnedUpstream = <<"foo">>
    /\ NewUpstream = <<"bar">>
    /\ Downstream = <<"baz">>

(***************************************************************************)
(* Serialized paths (Spec).                                                *)
(***************************************************************************)
\* The path an override holds for a path field of its record.
HeldPath(o, field) ==
    CASE field = "file" -> o.overrideFile
      [] field = "baseFile" -> o.baseFile
      [] field = "directory" -> o.directory
      [] field = "baseDirectory" -> o.baseDirectory

PathFields(rec) == DOMAIN rec \cap {"file", "baseFile", "directory", "baseDirectory"}

\* C20: every path field of the record serialize() returns has no backslash
\* and has, between its slashes, the segments of the normalized path the
\* override holds for it; and normalizing the record's file or directory
\* gives name() exactly.
C20_SerializedPaths ==
    last.op = "serialize" =>
        /\ \A field \in PathFields(last.ret) :
              /\ \A k \in DOMAIN last.ret[field] : last.ret[field][k] # BACKSLASH
              /\ SplitOn(last.ret[field], SLASH) = Segments(platform, HeldPath(ovr, field))
        /\ normalizePath(RecordPath(last.ret)) = name(ovr)

\* On win32 a directory copy named "a\b" was serialized with the directory "a/b".
C20_Witness ==
    /\ last.op = "serialize"
    /\ platform = "win32"
    /\ ovr.class = "DirectoryCopyOverride"
    /\ ovr.directory = <<"a", "\\", "b">>
    /\ last.ret.directory = <<"a", "/", "b">>


(***************************************************************************)
(* A platform override against a moving upstream tree.                     *)
(***************************************************************************)
\* C21: a PlatformOverride can never be reported stale: its validation list
\* is exactly the single check overrideFileExists on its own file, its
\* upgrade strategy is the no-op assumeUpToDate, and what a validation of it
\* reports is pass exactly when the downstream file is there, whatever the
\* upstream tree holds.
C21_PlatformNeverStale ==
    (IsOverride(ovr) /\ ovr.class = "PlatformOverride") =>
        /\ validationStrategies(ovr) =
              << [check |-> "overrideFileExists", params |-> <<ovr.overrideFile>>] >>
        /\ upgradeStrategy(ovr) =
              [strategy |-> "assumeUpToDate", params |-> <<ovr.overrideFile>>]
        /\ last.op = "validate" =>
              /\ last.check = "overrideFileExists"
              /\ (last.ret = "pass") = (Lookup(overrideRepo, ovr.overrideFile) # NoContent)

\* A platform override was validated and passed after the upstream tree had
\* lost one path and changed the content of the other.
C21_Witness ==
    /\ IsOverride(ovr)
    /\ ovr.class = "PlatformOverride"
    /\ last.op = "validate"
    /\ last.ret = "pass"
    /\ reactRepo[<<"a">>] = NoContent
    /\ reactRepo[<<"u", "/", "v">>] = "c2"


(***************************************************************************)
(* Runtime holders (HermesRuntimeHolder, DebugHermesRuntimeHolder,         *)
(* QuickJSRuntimeHolder): getRuntime initialises the runtime lazily under  *)
(* std::call_once and hands it to the thread that initialised it.          *)
(* holder.pc[t] is the statement thread t is at inside getRuntime.         *)
(***************************************************************************)
\* The fields of the override client, untouched by the other programs.
overrideVars == <<platform, cwd, ovr, pending, last, reactRepo, overrideRepo, manifest, tasks>>

\* No override client is at work.
NoOverrides ==
    /\ platform = "posix"
    /\ cwd = <<>>
    /\ ovr = <<>>
    /\ pending = <<>>
    /\ last = <<>>
    /\ reactRepo = <<>>
    /\ overrideRepo = <<>>
    /\ manifest = <<>>
    /\ tasks = <<>>

HolderClasses == {"HermesRuntimeHolder", "DebugHermesRuntimeHolder", "QuickJSRuntimeHolder"}

Threads == 1..NumThreads

\* An empty shared_ptr; a default-constructed std::thread::id.
nullptr == 0
NoThread == 0

\* The runtime the holder's initRuntime makes on its n-th run.
MakeRuntime(class, n) ==
    CASE class = "HermesRuntimeHolder" -> n
      [] class = "DebugHermesRuntimeHolder" -> 10 + n
      [] class = "QuickJSRuntimeHolder" -> 20 + n

InitHolder ==
    /\ NoOverrides
    /\ transport = <<>>
    /\ cli = <<>>
    /\ \E class \in HolderClasses :
          holder = [class |-> class,
                    once_flag_ |-> "clear",
                    runtime_ |-> nullptr,
                    own_thread_id_ |-> NoThread,
                    pc |-> [t \in Threads |-> "idle"],
                    calls |-> [t \in Threads |-> 0],
                    ret |-> [t \in Threads |-> nullptr],
                    initRuns |-> <<>>,
                    waited |-> {},
                    terminated |-> "no"]

Running == holder.terminated = "no"

\* A thread calls getRuntime.
getRuntime(t) ==
    /\ Running
    /\ holder.pc[t] = "idle"
    /\ holder.calls[t] < MaxCalls
    /\ holder' = [holder EXCEPT !.pc[t] = "call_once", !.calls[t] = @ + 1]
    /\ UNCHANGED <<overrideVars, transport, cli>>

\* A slip: the runtime is made whenever it is found empty, with no once flag.
call_once_unsynchronised(t) ==
    /\ Running
    /\ holder.pc[t] = "call_once"
    /\ IF holder.runtime_ = nullptr
       THEN holder' = [holder EXCEPT !.pc[t] = "initRuntime"]
       ELSE holder' = [holder EXCEPT !.pc[t] = "check_runtime"]
    /\ UNCHANGED <<overrideVars, transport, cli>>

\* std::call_once(once_flag_, ...): the first caller runs the callable, a
\* caller that finds it running waits for it, a caller that finds it done
\* goes on.
call_once(t) ==
    /\ Running
    /\ holder.pc[t] = "call_once"
    /\ CASE holder.once_flag_ = "clear" ->
              holder' = [holder EXCEPT !.once_flag_ = "active", !.pc[t] = "initRuntime"]
         [] holder.once_flag_ = "active" ->
              /\ t \notin holder.waited
              /\ holder' = [holder EXCEPT !.waited = @ \cup {t}]
         [] holder.once_flag_ = "set" ->
              holder' = [holder EXCEPT !.pc[t] = "check_runtime"]
    /\ UNCHANGED <<overrideVars, transport, cli>>

\* initRuntime, first statement: runtime_ = make...Runtime(). The maker gives
\* a runtime, or nothing.
initRuntime_make(t, made) ==
    /\ Running
    /\ holder.pc[t] = "initRuntime"
    /\ holder' = [holder EXCEPT
                    !.runtime_ = IF made THEN MakeRuntime(holder.class, Len(holder.initRuns) + 1)
                                 ELSE nullptr,
                    !.initRuns = Append(@, t),
                    !.pc[t] = "initRuntime_own"]
    /\ UNCHANGED <<overrideVars, transport, cli>>

\* initRuntime, second statement: own_thread_id_ = std::this_thread::get_id().
initRuntime_own(t) ==
    /\ Running
    /\ holder.pc[t] = "initRuntime_own"
    /\ holder' = [holder EXCEPT !.own_thread_id_ = t, !.pc[t] = "call_once_returns"]
    /\ UNCHANGED <<overrideVars, transport, cli>>

\* The callable has returned: the flag is set and the waiting callers released.
call_once_returns(t) ==
    /\ Running
    /\ holder.pc[t] = "call_once_returns"
    /\ holder' = [holder EXCEPT !.once_flag_ = "set", !.pc[t] = "check_runtime"]
    /\ UNCHANGED <<overrideVars, transport, cli>>

\* if (!runtime_) std::terminate();
check_runtime(t) ==
    /\ Running
    /\ holder.pc[t] = "check_runtime"
    /\ IF holder.runtime_ = nullptr
       THEN holder' = [holder EXCEPT !.terminated = "no runtime"]
       ELSE holder' = [holder EXCEPT !.pc[t] = "check_thread"]
    /\ UNCHANGED <<overrideVars, transport, cli>>

\* A slip: the runtime handed out without a look at the calling thread.
check_thread_skipped(t) ==
    /\ Running
    /\ holder.pc[t] = "check_thread"
    /\ holder' = [holder EXCEPT !.pc[t] = "return"]
    /\ UNCHANGED <<overrideVars, transport, cli>>

\* if (own_thread_id_ != std::this_thread::get_id()) std::terminate();
check_thread(t) ==
    /\ Running
    /\ holder.pc[t] = "check_thread"
    /\ IF holder.own_thread_id_ # t
       THEN holder' = [holder EXCEPT !.terminated = "wrong thread"]
       ELSE holder' = [holder EXCEPT !.pc[t] = "return"]
    /\ UNCHANGED <<overrideVars, transport, cli>>

\* return runtime_;
getRuntime_return(t) ==
    /\ Running
    /\ holder.pc[t] = "return"
    /\ holder' = [holder EXCEPT !.ret[t] = holder.runtime_, !.pc[t] = "idle"]
    /\ UNCHANGED <<overrideVars, transport, cli>>

NextHolder ==
    \E t \in Threads :
        \/ getRuntime(t)
        \/ call_once(t)
        \/ \E made \in BOOLEAN : initRuntime_make(t, made)
        \/ initRuntime_own(t)
        \/ call_once_returns(t)
        \/ check_runtime(t)
        \/ check_thread(t)
        \/ getRuntime_return(t)

SpecHolder == InitHolder /\ [][NextHolder]_vars

\* The threads that are past call_once in their current call.
PastCallOnce == {t \in Threads : holder.pc[t] \in {"check_runtime", "check_thread", "return"}}

\* The threads a getRuntime call has returned the runtime to.
Returned == {t \in Threads : holder.ret[t] # nullptr}

\* C22: for each of the three holders, under any interleaving of getRuntime
\* calls initRuntime runs at most once, it has completed (both of its
\* assignments and the once flag) before any caller gets past call_once or
\* returns, and every call that returns gives back the same runtime, the one
\* the holder holds.
C22_InitOnce ==
    /\ Len(holder.initRuns) <= 1
    /\ (PastCallOnce \cup Returned # {}) =>
          /\ holder.once_flag_ = "set"
          /\ Len(holder.initRuns) = 1
          /\ holder.own_thread_id_ = holder.initRuns[1]
    /\ \A t \in Returned : holder.ret[t] = holder.runtime_
    /\ \A t, u \in Returned : holder.ret[t] = holder.ret[u]

\* A thread found the initialisation running and waited for it, and the
\* initialising thread has since been given the runtime in two calls.
C22_Witness ==
    /\ holder.waited # {}
    /\ \E t \in Returned : holder.calls[t] = MaxCalls /\ holder.pc[t] = "idle"
    /\ \E t \in holder.waited : t \in PastCallOnce

\* C23: the runtime is only ever handed to one thread, the one whose
\* getRuntime call ran initRuntime: no other thread gets past the thread
\* check or is returned the runtime, and a call from another thread that
\* reaches the thread check terminates the process.
C23_OwnerOnly ==
    [][ /\ \A t \in Threads :
              (holder'.pc[t] = "return" \/ holder'.ret[t] # nullptr) =>
                  /\ holder'.initRuns = <<t>>
                  /\ holder'.own_thread_id_ = t
        /\ \A t \in Threads :
              (/\ holder.pc[t] = "check_thread"
               /\ holder'.pc[t] # "check_thread" \/ holder'.terminated # "no"
               /\ holder.own_thread_id_ # t) =>
                  holder'.terminated = "wrong thread" ]_vars

\* The owner had been given the runtime when a call from another thread
\* terminated the process.
C23_Witness ==
    /\ holder.terminated = "wrong thread"
    /\ Returned # {}
    /\ \E t \in Threads \ Returned : holder.pc[t] = "check_thread"


(***************************************************************************)
(* The QuickJS debugger transport (quickjs-debugger-transport-win.c): one  *)
(* call of js_debugger_connect or js_debugger_wait_connection, statement   *)
(* by statement, each system call succeeding or failing, and the           *)
(* js_transport_close of an attached transport.                            *)
(***************************************************************************)
NUL == "NUL"
COLON == ":"

\* char host[16], char port[16]; the len both call sites pass.
HostPortLen == 16

\* n times the character c.
Repeat(c, n) == [i \in 1..n |-> c]

\* The address strings tried: a host part, and with a ':' a port part.
Addresses ==
    {Repeat("h", n) : n \in 0..MaxHostLen}
    \cup {Repeat("h", n) \o <<COLON>> \o Repeat("9", m) : n \in 0..MaxHostLen, m \in 0..MaxPortLen}

\* strstr(address, ":") as an offset into address; -1 for a null result.
strstr(address, c) ==
    IF \E i \in 1..Len(address) : address[i] = c
    THEN (CHOOSE i \in 1..Len(address) :
              address[i] = c /\ \A j \in 1..(i - 1) : address[j] # c) - 1
    ELSE -1

\* strncpy(dst, src, n): the first n bytes of dst are written, with the
\* characters of src and then with NULs; no NUL is written when src has n or
\* more characters.
strncpy(dst, src, n) ==
    [i \in DOMAIN dst |->
        IF i < n THEN (IF i < Len(src) THEN src[i + 1] ELSE NUL) ELSE dst[i]]

\* The offsets strncpy(dst, src, n) writes at.
strncpyWrites(n) == 0..(n - 1)

\* js_debugger_parse_address(address, host_string, port_string, len): what
\* it returns, what the buffers hold afterwards, and the offsets it wrote
\* at in each. A write past the end of host_string leaves the buffer as it
\* is and is recorded by its offset.
js_debugger_parse_address(isNull, address, host_string, port_string, len) ==
    LET port == strstr(address, COLON)
        copied == strncpy(host_string, address, len)
    IN IF isNull \/ port = -1
       THEN [ret |-> 0, host |-> host_string, port |-> port_string,
             hostWrites |-> {}, portWrites |-> {}]
       ELSE [ret |-> 1,
             port |-> strncpy(port_string, SubSeq(address, port + 2, Len(address)), len),
             host |-> IF port \in DOMAIN copied THEN [copied EXCEPT ![port] = NUL] ELSE copied,
             hostWrites |-> strncpyWrites(len) \cup {port},
             portWrites |-> strncpyWrites(len)]

INVALID_SOCKET == -1

TransportFns == {"js_debugger_connect", "js_debugger_wait_connection"}

InitTransport ==
    /\ NoOverrides
    /\ holder = <<>>
    /\ cli = <<>>
    /\ \E fn \in TransportFns : \E isNull \in BOOLEAN :
       \E address \in (IF isNull THEN {<<>>} ELSE Addresses) :
          transport = [fn |-> fn,
                       addressIsNull |-> isNull,
                       address |-> address,
                       pc |-> "parse",
                       host |-> [i \in 0..(HostPortLen - 1) |-> NUL],
                       port |-> [i \in 0..(HostPortLen - 1) |-> NUL],
                       parsed |-> -1,
                       hostWrites |-> {},
                       portWrites |-> {},
                       overrun |-> "none",
                       startups |-> 0,
                       cleanups |-> 0,
                       addr_info |-> "NULL",
                       addr_left |-> 0,
                       created |-> 0,
                       open |-> {},
                       socket |-> INVALID_SOCKET,
                       listen_socket |-> INVALID_SOCKET,
                       connected |-> FALSE,
                       attached |-> FALSE,
                       handle |-> 0,
                       data |-> "none"]

\* What a write past the end of host[16] may do: land in port, when the
\* build lays port[16] directly after host[16] (host[16 + k] is then
\* port[k]), land in other memory of the frame, or fault.
Overruns == {"port", "elsewhere", "fault"}

\* The call parses its address: lines 126-131 and 195-200.
ParseAddress(overrun) ==
    /\ transport.pc = "parse"
    /\ LET r == js_debugger_parse_address(transport.addressIsNull, transport.address,
                                          transport.host, transport.port, HostPortLen)
           inside == r.hostWrites \subseteq DOMAIN transport.host
           beyond == strstr(transport.address, COLON) - HostPortLen
       IN /\ (inside => overrun = "none")
          /\ (~inside => overrun \in Overruns)
          /\ transport' = [transport EXCEPT
                !.parsed = r.ret,
                !.host = r.host,
                !.port = IF overrun = "port" /\ beyond \in DOMAIN r.port
                        THEN [r.port EXCEPT ![beyond] = NUL] ELSE r.port,
                !.hostWrites = r.hostWrites,
                !.portWrites = r.portWrites,
                !.overrun = overrun,
                !.pc = CASE overrun = "fault" -> "crashed"
                         [] r.ret = 0 -> "returned"
                         [] OTHER -> "WSAStartup"]
    /\ UNCHANGED <<overrideVars, holder, cli>>

\* result = WSAStartup(...): lines 133-138 and 202-207.
WSAStartup(ok) ==
    /\ transport.pc = "WSAStartup"
    /\ transport' = IF ok
                    THEN [transport EXCEPT !.startups = @ + 1, !.pc = "getaddrinfo"]
                    ELSE [transport EXCEPT !.pc = "returned"]
    /\ UNCHANGED <<overrideVars, holder, cli>>

\* result = getaddrinfo(...): lines 147-152 and 217-222. On success the
\* list holds n addresses.
getaddrinfo(n) ==
    /\ transport.pc = "getaddrinfo"
    /\ transport' = IF n > 0
                    THEN [transport EXCEPT !.addr_info = "allocated", !.addr_left = n,
                                           !.pc = IF transport.fn = "js_debugger_connect"
                                                  THEN "socket" ELSE "listen_socket"]
                    ELSE [transport EXCEPT !.cleanups = @ + 1, !.pc = "returned"]
    /\ UNCHANGED <<overrideVars, holder, cli>>

\* js_debugger_connect, loop head and socket(): lines 156-164.
connect_socket(ok) ==
    /\ transport.pc = "socket"
    /\ transport.addr_left > 0
    /\ transport' = IF ok
                    THEN [transport EXCEPT !.created = @ + 1,
                                           !.socket = transport.created + 1,
                                           !.open = @ \cup {transport.created + 1},
                                           !.pc = "connect"]
                    ELSE [transport EXCEPT !.socket = INVALID_SOCKET,
                                           !.cleanups = @ + 1, !.pc = "returned"]
    /\ UNCHANGED <<overrideVars, holder, cli>>

\* js_debugger_connect, connect(): lines 167-174.
connect(ok) ==
    /\ transport.pc = "connect"
    /\ transport' = IF ok
                    THEN [transport EXCEPT !.connected = TRUE, !.pc = "freeaddrinfo"]
                    ELSE [transport EXCEPT !.open = @ \ {transport.socket},
                                           !.socket = INVALID_SOCKET,
                                           !.addr_left = @ - 1,
                                           !.pc = IF transport.addr_left > 1
                                                  THEN "socket" ELSE "freeaddrinfo"]
    /\ UNCHANGED <<overrideVars, holder, cli>>

\* js_debugger_connect, after the loop: lines 177-188.
connect_finish ==
    /\ transport.pc = "freeaddrinfo"
    /\ transport' = IF transport.socket = INVALID_SOCKET
                    THEN [transport EXCEPT !.addr_info = "freed",
                                           !.cleanups = @ + 1, !.pc = "returned"]
                    ELSE [transport EXCEPT !.addr_info = "freed",
                                           !.data = "allocated",
                                           !.handle = transport.socket,
                                           !.attached = TRUE, !.pc = "returned"]
    /\ UNCHANGED <<overrideVars, holder, cli>>

\* js_debugger_wait_connection, socket(): lines 225-231.
listen_socket(ok) ==
    /\ transport.pc = "listen_socket"
    /\ transport' = IF ok
                    THEN [transport EXCEPT !.created = @ + 1,
                                           !.listen_socket = transport.created + 1,
                                           !.open = @ \cup {transport.created + 1},
                                           !.pc = "bind"]
                    ELSE [transport EXCEPT !.addr_info = "freed",
                                           !.cleanups = @ + 1, !.pc = "returned"]
    /\ UNCHANGED <<overrideVars, holder, cli>>

\* js_debugger_wait_connection, bind() and freeaddrinfo: lines 234-243.
bind(ok) ==
    /\ transport.pc = "bind"
    /\ transport' = IF ok
                    THEN [transport EXCEPT !.addr_info = "freed", !.pc = "listen"]
                    ELSE [transport EXCEPT !.addr_info = "freed",
                                           !.open = @ \ {transport.listen_socket},
                                           !.cleanups = @ + 1, !.pc = "returned"]
    /\ UNCHANGED <<overrideVars, holder, cli>>

\* js_debugger_wait_connection, listen(): lines 245-251.
listen(ok) ==
    /\ transport.pc = "listen"
    /\ transport' = IF ok
                    THEN [transport EXCEPT !.pc = "accept"]
                    ELSE [transport EXCEPT !.open = @ \ {transport.listen_socket},
                                           !.cleanups = @ + 1, !.pc = "returned"]
    /\ UNCHANGED <<overrideVars, holder, cli>>

\* js_debugger_wait_connection, accept() to the end: lines 254-267.
accept(ok) ==
    /\ transport.pc = "accept"
    /\ transport' = IF ok
                    THEN [transport EXCEPT !.created = @ + 1,
                                           !.socket = transport.created + 1,
                                           !.open = (@ \cup {transport.created + 1})
                                                        \ {transport.listen_socket},
                                           !.connected = TRUE,
                                           !.data = "allocated",
                                           !.handle = transport.created + 1,
                                           !.attached = TRUE, !.pc = "returned"]
                    ELSE [transport EXCEPT !.open = @ \ {transport.listen_socket},
                                           !.cleanups = @ + 1, !.pc = "returned"]
    /\ UNCHANGED <<overrideVars, holder, cli>>

\* js_transport_close(ctx, udata), called by the debugger on an attached
\* transport: lines 96-104.
js_transport_close ==
    /\ transport.pc = "returned"
    /\ transport.attached
    /\ transport.handle > 0
    /\ transport' = [transport EXCEPT !.open = @ \ {transport.handle},
                                      !.handle = 0,
                                      !.data = "freed",
                                      !.cleanups = @ + 1,
                                      !.pc = "closed"]
    /\ UNCHANGED <<overrideVars, holder, cli>>

NextTransport ==
    \/ \E overrun \in Overruns \cup {"none"} : ParseAddress(overrun)
    \/ \E ok \in BOOLEAN : WSAStartup(ok)
    \/ \E n \in 0..MaxAddrs : getaddrinfo(n)
    \/ \E ok \in BOOLEAN : connect_socket(ok)
    \/ \E ok \in BOOLEAN : connect(ok)
    \/ connect_finish
    \/ \E ok \in BOOLEAN : listen_socket(ok)
    \/ \E ok \in BOOLEAN : bind(ok)
    \/ \E ok \in BOOLEAN : listen(ok)
    \/ \E ok \in BOOLEAN : accept(ok)
    \/ js_transport_close

SpecTransport == InitTransport /\ [][NextTransport]_vars

\* C24, as the claim states it: when js_debugger_connect or
\* js_debugger_wait_connection has returned, the transport is attached
\* exactly when a connected socket was obtained, and a call that returned
\* without attaching has called WSACleanup exactly once if its WSAStartup
\* succeeded (and not otherwise), has freed the address list getaddrinfo
\* gave it, and has closed every socket it created.
C24_ReleasedUnlessAttached ==
    transport.pc = "returned" =>
        /\ transport.attached = transport.connected
        /\ ~transport.attached =>
              /\ transport.cleanups = transport.startups
              /\ transport.addr_info # "allocated"
              /\ transport.open = {}


\* A buffer holds a NUL within its length.
NulTerminated(buf) == \E i \in DOMAIN buf : buf[i] = NUL

\* C25, as the claim states it: for every address string, once
\* js_debugger_parse_address has returned, every offset it wrote at lies
\* inside the 16-byte host and port buffers, both buffers hold a NUL, and
\* for an address that is null or has no ':' it returned 0 and wrote nothing.
C25_ParseStaysInBuffers ==
    transport.parsed # -1 =>
        /\ transport.hostWrites \subseteq 0..(HostPortLen - 1)
        /\ transport.portWrites \subseteq 0..(HostPortLen - 1)
        /\ NulTerminated(transport.host)
        /\ NulTerminated(transport.port)
        /\ (transport.addressIsNull \/ strstr(transport.address, COLON) = -1) =>
              /\ transport.parsed = 0
              /\ transport.hostWrites = {}
              /\ transport.portWrites = {}


(***************************************************************************)
(* react-native-windows-init (Cli.ts): one run of the command line, from   *)
(* reading package.json to the project generator. cli.pc is the statement  *)
(* of the main function the run is at; cli.env holds the project the run   *)
(* finds (package.json, the installed react-native) and what the npm       *)
(* lookups and the prompt answered.                                        *)
(***************************************************************************)
EXITCODE_UNSUPPORTED_VERION_RN == 3
EXITCODE_USER_CANCEL == 4
EXITCODE_NO_REACTNATIVE_FOUND == 5
EXITCODE_UNKNOWN_ERROR == 6
EXITCODE_NO_PACKAGE_JSON == 7
EXITCODE_NO_LATEST_RNW == 8
EXITCODE_NO_AUTO_MATCHING_RNW == 9
EXITCODE_INCOMPATIBLE_OPTIONS == 10
EXITCODE_DEVMODE_VERSION_MISMATCH == 11

\* The process has not exited.
NoExit == -1
\* The main function ran to its end.
ExitNormal == 0

\* A version string, by its parts; a string that is no version; no string.
Version(major, minor, patch, pre) ==
    [kind |-> "version", major |-> major, minor |-> minor, patch |-> patch, pre |-> pre]
NotAVersion == [kind |-> "text"]
EmptyString == [kind |-> "empty"]
Undefined == [kind |-> "undefined"]
Null == [kind |-> "null"]

\* `^${major}.${minor}.0-0`
CaretRange(major, minor) ==
    [kind |-> "range", major |-> major, minor |-> minor, patch |-> 0, pre |-> "0"]

\* !x for the values a version variable takes: true for undefined, null
\* and the empty string.
Falsy(v) == v.kind \in {"undefined", "null", "empty"}

\* semver.valid(v): the version, or null.
semver_valid(v) == IF v.kind = "version" THEN v ELSE Null

\* semver.prerelease(v): truthy exactly for a version with pre-release parts.
semver_prerelease(v) == v.kind = "version" /\ v.pre # ""

\* A slip: every valid version taken as supported.
getDefaultReactNativeWindowsSemVerForReactNativeVersion_anyVersion(rnVersion) ==
    LET validVersion == semver_valid(rnVersion)
    IN IF ~Falsy(validVersion)
       THEN [exit |-> NoExit, ret |-> CaretRange(validVersion.major, validVersion.minor)]
       ELSE [exit |-> EXITCODE_UNSUPPORTED_VERION_RN, ret |-> Undefined]

\* getDefaultReactNativeWindowsSemVerForReactNativeVersion(rnVersion): the
\* range it returns, or the exit code of its userError.
getDefaultReactNativeWindowsSemVerForReactNativeVersion(rnVersion) ==
    LET validVersion == semver_valid(rnVersion)
    IN IF ~Falsy(validVersion) /\ validVersion.major = 0 /\ validVersion.minor >= 59
       THEN [exit |-> NoExit, ret |-> CaretRange(validVersion.major, validVersion.minor)]
       ELSE [exit |-> EXITCODE_UNSUPPORTED_VERION_RN, ret |-> Undefined]

\* What --version is given as: not at all, with an empty value, as a
\* version, as another string.
ArgvVersions == {Undefined, EmptyString, Version(0, 62, 5, ""), NotAVersion}

\* What findUp and JSON.parse make of package.json: found with a name,
\* found without one, not found, not parsable.
PkgJsonStates == {"found", "noname", "missing", "unparsable"}

\* The same for app.json, which is read when package.json has no name.
AppJsonStates == {"found", "noname", "missing", "unparsable"}

\* What getReactNativeVersion finds: a version, a path that cannot be
\* resolved (require.resolve throws), or a resolved path that does not exist.
RnInstalls ==
    {Version(0, 58, 6, ""), Version(0, 59, 10, ""), Version(0, 62, 2, ""),
     Version(1, 0, 0, ""), NotAVersion,
     [kind |-> "unresolvable"], [kind |-> "nonexistent"]}

\* What getLatestMatchingRNWVersion resolves to: a release, a pre-release,
\* or null when the query fails or matches nothing.
Lookups == {Null, Version(0, 62, 5, ""), Version(0, 63, 0, "preview.1")}

\* What getLatestMatchingRNWVersion('latest') resolves to.
Latests == {Null, Version(0, 62, 5, "")}

Unasked == [kind |-> "unasked"]

InitCli ==
    /\ NoOverrides
    /\ holder = <<>>
    /\ transport = <<>>
    /\ \E version \in ArgvVersions : \E useDevMode, useWinUI3, nuget \in BOOLEAN :
       \E pkgJson \in PkgJsonStates : \E appJson \in AppJsonStates : \E rn \in RnInstalls :
          cli = [argv |-> [version |-> version, useDevMode |-> useDevMode,
                           useWinUI3 |-> useWinUI3,
                           experimentalNuGetDependency |-> nuget],
                 env |-> [pkgJson |-> pkgJson, appJson |-> appJson, rn |-> rn,
                          rnAgain |-> Unasked, lookup |-> Unasked,
                          latest |-> Unasked, confirm |-> "unasked"],
                 pc |-> "getReactNativeAppName",
                 version |-> Undefined,
                 rnwResolvedVersion |-> Undefined,
                 warned |-> FALSE,
                 installCalled |-> FALSE,
                 generated |-> FALSE,
                 exitCode |-> NoExit]

\* process.exit(code)
Exit(code) == [cli EXCEPT !.pc = "exited", !.exitCode = code]

\* Lines 362-365: getReactNativeAppName (113-135), then the locals. With
\* no name in package.json app.json is read when it is found; a file that
\* cannot be parsed throws into the catch of main. A name found nowhere is
\* only reported.
ReadAppName ==
    /\ cli.pc = "getReactNativeAppName"
    /\ cli' = CASE cli.env.pkgJson = "missing" -> Exit(EXITCODE_NO_PACKAGE_JSON)
                [] cli.env.pkgJson = "unparsable" -> Exit(EXITCODE_UNKNOWN_ERROR)
                [] cli.env.pkgJson = "noname" /\ cli.env.appJson = "unparsable" ->
                      Exit(EXITCODE_UNKNOWN_ERROR)
                [] OTHER -> [cli EXCEPT !.version = cli.argv.version, !.pc = "checkOptions"]
    /\ UNCHANGED <<overrideVars, holder, transport>>

\* Lines 367-375: the incompatible options, then the branch on useDevMode
\* and on version.
CheckOptions ==
    /\ cli.pc = "checkOptions"
    /\ cli' = CASE cli.argv.useWinUI3 /\ cli.argv.experimentalNuGetDependency ->
                      Exit(EXITCODE_INCOMPATIBLE_OPTIONS)
                [] cli.argv.useDevMode -> [cli EXCEPT !.pc = "install"]
                [] Falsy(cli.version) -> [cli EXCEPT !.pc = "getReactNativeVersion"]
                [] OTHER -> [cli EXCEPT !.pc = "getLatestMatchingRNWVersion"]
    /\ UNCHANGED <<overrideVars, holder, transport>>

\* Lines 376-379: getReactNativeVersion and the default range for it.
DefaultVersion ==
    /\ cli.pc = "getReactNativeVersion"
    /\ LET rnVersion == cli.env.rn
           default == getDefaultReactNativeWindowsSemVerForReactNativeVersion(rnVersion)
       IN cli' = CASE rnVersion.kind = "unresolvable" -> Exit(EXITCODE_UNKNOWN_ERROR)
                   [] rnVersion.kind = "nonexistent" -> Exit(EXITCODE_NO_REACTNATIVE_FOUND)
                   [] default.exit # NoExit -> Exit(default.exit)
                   [] OTHER ->
                         [cli EXCEPT !.version = default.ret,
                                     !.pc = "getLatestMatchingRNWVersion"]
    /\ UNCHANGED <<overrideVars, holder, transport>>

\* Lines 382-412: the lookup of the version, and the warning when the
\* lookup of a given --version fails.
ResolveVersion(found) ==
    /\ cli.pc = "getLatestMatchingRNWVersion"
    /\ cli' = [cli EXCEPT
                 !.env.lookup = found,
                 !.rnwResolvedVersion = found,
                 !.warned = Falsy(found) /\ ~Falsy(cli.argv.version),
                 !.pc = CASE Falsy(found) /\ Falsy(cli.argv.version) -> "noMatch"
                          [] ~Falsy(cli.argv.version) -> "install"
                          [] OTHER -> "logMatch"]
    /\ UNCHANGED <<overrideVars, holder, transport>>

\* Lines 414-425: without --version the match is logged, for which
\* getReactNativeVersion is called a second time; the project may have
\* changed while the lookup was awaited, so the call may find react-native
\* as before, find it gone, or throw. Then the pre-release test.
LogMatch(rnAgain) ==
    /\ cli.pc = "logMatch"
    /\ rnAgain \in {cli.env.rn, [kind |-> "unresolvable"], [kind |-> "nonexistent"]}
    /\ LET seen == [cli EXCEPT !.env.rnAgain = rnAgain]
       IN cli' = CASE rnAgain.kind = "unresolvable" ->
                         [seen EXCEPT !.pc = "exited", !.exitCode = EXITCODE_UNKNOWN_ERROR]
                   [] rnAgain.kind = "nonexistent" ->
                         [seen EXCEPT !.pc = "exited",
                                      !.exitCode = EXITCODE_NO_REACTNATIVE_FOUND]
                   [] semver_prerelease(cli.rnwResolvedVersion) ->
                         [seen EXCEPT !.pc = "preRelease"]
                   [] OTHER -> [seen EXCEPT !.pc = "install"]
    /\ UNCHANGED <<overrideVars, holder, transport>>

\* Lines 392-410: no match for the default range: getLatestRNWVersion, then
\* the userError.
NoMatch(latest) ==
    /\ cli.pc = "noMatch"
    /\ cli' = [cli EXCEPT !.env.latest = latest,
                          !.pc = "exited",
                          !.exitCode = IF Falsy(latest) THEN EXITCODE_NO_LATEST_RNW
                                       ELSE EXITCODE_NO_AUTO_MATCHING_RNW]
    /\ UNCHANGED <<overrideVars, holder, transport>>

\* Lines 426-445: a pre-release was resolved: getLatestRNWVersion, then the
\* warning.
PreRelease(latest) ==
    /\ cli.pc = "preRelease"
    /\ cli' = IF Falsy(latest)
              THEN [cli EXCEPT !.env.latest = latest, !.pc = "exited",
                               !.exitCode = EXITCODE_NO_LATEST_RNW]
              ELSE [cli EXCEPT !.env.latest = latest, !.pc = "prompt"]
    /\ UNCHANGED <<overrideVars, holder, transport>>

\* Lines 447-457: the prompt.
Prompt(confirm) ==
    /\ cli.pc = "prompt"
    /\ cli' = IF confirm
              THEN [cli EXCEPT !.env.confirm = "yes", !.pc = "install"]
              ELSE [cli EXCEPT !.env.confirm = "no", !.pc = "exited",
                               !.exitCode = EXITCODE_USER_CANCEL]
    /\ UNCHANGED <<overrideVars, holder, transport>>

\* Line 462: installReactNativeWindows(version, useDevMode) (281-336). In
\* dev mode the linked package may be of another version than the one asked
\* for; a command it runs may fail.
installReactNativeWindows(linkedMatches, ok) ==
    /\ cli.pc = "install"
    /\ LET called == [cli EXCEPT !.installCalled = TRUE]
       IN cli' = CASE cli.argv.useDevMode /\ ~Falsy(cli.version) /\ ~linkedMatches ->
                         [called EXCEPT !.pc = "exited",
                                        !.exitCode = EXITCODE_DEVMODE_VERSION_MISMATCH]
                   [] ~cli.argv.useDevMode /\ Falsy(cli.version) ->
                         [called EXCEPT !.pc = "exited", !.exitCode = EXITCODE_UNKNOWN_ERROR]
                   [] ~ok ->
                         [called EXCEPT !.pc = "exited", !.exitCode = EXITCODE_UNKNOWN_ERROR]
                   [] OTHER -> [called EXCEPT !.pc = "generateWindows"]
    /\ UNCHANGED <<overrideVars, holder, transport>>

\* Lines 464-473: the project generator.
generateWindows(ok) ==
    /\ cli.pc = "generateWindows"
    /\ cli' = IF ok
              THEN [cli EXCEPT !.generated = TRUE, !.pc = "exited", !.exitCode = ExitNormal]
              ELSE [cli EXCEPT !.generated = TRUE, !.pc = "exited",
                               !.exitCode = EXITCODE_UNKNOWN_ERROR]
    /\ UNCHANGED <<overrideVars, holder, transport>>

NextCli ==
    \/ ReadAppName
    \/ CheckOptions
    \/ DefaultVersion
    \/ \E found \in Lookups : ResolveVersion(found)
    \/ \E rnAgain \in RnInstalls : LogMatch(rnAgain)
    \/ \E latest \in Latests : NoMatch(latest)
    \/ \E latest \in Latests : PreRelease(latest)
    \/ \E confirm \in BOOLEAN : Prompt(confirm)
    \/ \E linkedMatches, ok \in BOOLEAN : installReactNativeWindows(linkedMatches, ok)
    \/ \E ok \in BOOLEAN : generateWindows(ok)

SpecCli == InitCli /\ [][NextCli]_vars


Ended == cli.pc = "exited"

\* getReactNativeAppName returned: package.json was found and parsed, and
\* so was app.json when it was read.
AppNameRead ==
    \/ cli.env.pkgJson = "found"
    \/ cli.env.pkgJson = "noname" /\ cli.env.appJson # "unparsable"

IncompatibleOptions == cli.argv.useWinUI3 /\ cli.argv.experimentalNuGetDependency

VersionGiven == ~Falsy(cli.argv.version)

\* react-native is installed and its version is one the tool does not
\* support: not a valid version, or not a 0.x with x at least 59.
RnUnsupported ==
    /\ cli.env.rn.kind \in {"version", "text"}
    /\ ~(cli.env.rn.kind = "version" /\ cli.env.rn.major = 0 /\ cli.env.rn.minor >= 59)

RnSupported ==
    cli.env.rn.kind = "version" /\ cli.env.rn.major = 0 /\ cli.env.rn.minor >= 59

\* The lookup of the version was made and found nothing.
LookupFailed == cli.env.lookup.kind = "null"

EndedBeforeInstallWith(code) == cli.exitCode = code /\ ~cli.installCalled

\* C26, as the claim states it: installation and generation run only after
\* the pre-checks have passed, and a run that has ended ended before any
\* installation with exit code 10 when --useWinUI3 and
\* --experimentalNuGetDependency are both set, and otherwise with 3 when no
\* --version is given and the installed react-native is unsupported, with 9
\* when no --version is given and the lookup found no matching version, with
\* 4 when the user declined the pre-release; after a failed lookup of a
\* given --version the run warned and went on to install.
C26_AsClaimed ==
    /\ cli.generated => cli.installCalled
    /\ Ended =>
          /\ IncompatibleOptions => EndedBeforeInstallWith(EXITCODE_INCOMPATIBLE_OPTIONS)
          /\ (~IncompatibleOptions /\ ~VersionGiven /\ RnUnsupported) =>
                EndedBeforeInstallWith(EXITCODE_UNSUPPORTED_VERION_RN)
          /\ (~IncompatibleOptions /\ ~VersionGiven /\ LookupFailed) =>
                EndedBeforeInstallWith(EXITCODE_NO_AUTO_MATCHING_RNW)
          /\ cli.env.confirm = "no" => EndedBeforeInstallWith(EXITCODE_USER_CANCEL)
          /\ (VersionGiven /\ LookupFailed) => (cli.warned /\ cli.installCalled)

\* C26, amended: the version pre-checks are made only without --useDevMode,
\* every check comes after the application name was read, and a failed
\* lookup of the latest version ends the run with 8. A --version with an
\* empty value counts as none given. installReactNativeWindows is
\* called only when the name was read, the two options are not both
\* set, and, without --useDevMode and --version, react-native is supported,
\* a matching version was found and a pre-release was confirmed; the
\* generator runs only after the installation. A run that read the name
\* and has ended ended before any installation with 10 when both options
\* are set, and otherwise, without --useDevMode: with 3 when no --version is
\* given and react-native is unsupported, with 9 (8 when the latest version
\* could not be looked up either) when no --version is given and no
\* matching version was found, with 4 when the user declined the
\* pre-release; after a failed lookup of a given --version it warned and
\* went on to install.
C26_ChecksBeforeInstall ==
    /\ cli.generated => cli.installCalled
    /\ cli.installCalled =>
          /\ AppNameRead
          /\ ~IncompatibleOptions
          /\ (~cli.argv.useDevMode /\ ~VersionGiven) =>
                /\ RnSupported
                /\ cli.env.lookup.kind = "version"
                /\ cli.env.rnAgain = cli.env.rn
                /\ semver_prerelease(cli.env.lookup) =>
                      (cli.env.latest.kind = "version" /\ cli.env.confirm = "yes")
    /\ (Ended /\ AppNameRead) =>
          /\ IncompatibleOptions => EndedBeforeInstallWith(EXITCODE_INCOMPATIBLE_OPTIONS)
          /\ (~IncompatibleOptions /\ ~cli.argv.useDevMode /\ ~VersionGiven) =>
                /\ RnUnsupported => EndedBeforeInstallWith(EXITCODE_UNSUPPORTED_VERION_RN)
                /\ LookupFailed =>
                      EndedBeforeInstallWith(IF cli.env.latest.kind = "null"
                                             THEN EXITCODE_NO_LATEST_RNW
                                             ELSE EXITCODE_NO_AUTO_MATCHING_RNW)
                /\ cli.env.confirm = "no" => EndedBeforeInstallWith(EXITCODE_USER_CANCEL)
          /\ (~IncompatibleOptions /\ ~cli.argv.useDevMode /\ VersionGiven /\ LookupFailed) =>
                (cli.warned /\ cli.installCalled)

\* Without --version and --useDevMode a pre-release was resolved for a
\* supported react-native, the user confirmed it, and the installation and
\* the generator ran.
C26_Witness ==
    /\ Ended
    /\ cli.exitCode = ExitNormal
    /\ cli.generated
    /\ ~VersionGiven
    /\ ~cli.argv.useDevMode
    /\ semver_prerelease(cli.env.lookup)
    /\ cli.env.confirm = "yes"

============================================================================
